---- MODULE Spec2Model ----
(***************************************************************************)
(* Content-addressed transfer pipeline of the file-sharing app.           *)
(*                                                                         *)
(*   server: getBlobStream / chunkIterator / handleDownloadTicket          *)
(*           (src/server/src/services/irohService.ts)                      *)
(*           shareFileFromPath / shareTextContent / handleFileShare /      *)
(*           handleTextShare / inspectTicket (same file)                   *)
(*   client: downloadTorrent with attemptChunkedDownload, fetchChunk,      *)
(*           worker, fallbackStreamDownload; compressFileIfUseful and      *)
(*           createTorrent (src/unnamed/part_005)                          *)
(*                                                                         *)
(* Sizes are counted in units of 256 KiB: the server's default stream      *)
(* chunk (256 * 1024) is 1 unit and the client's DOWNLOAD_CHUNK_SIZE       *)
(* (512 * 1024) is 2 units.  A byte of the model stands for one unit.      *)
(***************************************************************************)
EXTENDS Integers, Sequences, FiniteSets, TLC

VARIABLES
  \* ---- ContentStore / registry (server side)
  blob,          \* transport bytes stored under the ticket's hash
  compression,   \* compression tag of the record: "gzip" or "none"
  \* ---- one request being served (getBlobStream / handleDownloadTicket)
  srvPc,         \* "idle", "iter", "done" (the iterator ended), "answered"
                 \* (inspect, preview), "error"
  srvKind,       \* "none", "api" (getBlobStream called directly), "http"
                 \* (/download), "inspect", "preview"
  srvReqRange,   \* the range asked for (argument, or Range header), or NoRange
  srvChunkSize,  \* chunkSize argument of getBlobStream
  srvRange,      \* range returned by getBlobStream: [start, end]
  srvOffset,     \* chunkIterator: offset
  srvYielded,    \* buffers yielded so far (http: written to the response)
  srvReads,      \* offsets of the reads issued so far
  srvStatus,     \* http status of the response, 0 while none
  \* ---- the endpoint the client talks to, and the browser
  original,      \* the bytes that were shared (before any compression)
  honorsRange,   \* TRUE: the endpoint answers a Range request with that range;
                 \* FALSE: it answers as handleDownloadTicket does
  online,        \* navigator.onLine
  \* ---- one download session (downloadTorrent)
  state,         \* "Idle", "Probing", "ChunkedTransfer", "StreamingTransfer",
                 \* "Decompressing", "Persisting", "Done", "Failed"
  acceptRanges,  \* probe: accept-ranges = bytes
  compressedSize,\* probe: transport size, 0 when unknown
  chunkCount,    \* attemptChunkedDownload: chunkCount
  chunks,        \* attemptChunkedDownload: chunks, index -> buffer or NoBuf
  nextIndex,     \* attemptChunkedDownload: the shared cursor
  downloaded,    \* attemptChunkedDownload: downloaded
  wpc,           \* worker -> "off", "fetch", "waitOnline", "sleep", "claim",
                 \*           "returned", "threw"
  wIndex,        \* worker -> index of the chunk it is fetching
  wAttempt,      \* worker -> fetchChunk's attempt
  streamPc,      \* fallbackStreamDownload: "off", "fetch", "read", "end"
  received,      \* fallbackStreamDownload: chunks read from the body so far
  assembled,     \* compressedBlob handed to maybeDecompressBlob
  finalBlob,     \* result of maybeDecompressBlob
  saved,         \* bytes handed to saveBlobToDisk, NoFile while none
  toast,         \* the "Download failed" toast was shown
  \* ---- history
  claimed,       \* index -> number of times a worker claimed it
  okAttempt,     \* index -> attempt at which its fetch succeeded, -1 while none
  wOnlineFails,  \* worker -> failed fetches of its chunk seen while online
  doneOrder,     \* chunk indices in the order their fetches completed
  failure,       \* what ended the session: "none", "chunk", "fetch", "pipe",
                 \* "decompress"
  receivedBytes, \* transport bytes the session has received so far
  \* ---- what the session shows and leaves behind
  entry,         \* the session's entry of downloadingFiles, NoEntry when removed
  originalSizeHeader, \* x-original-size of the HEAD answer or the inspected
                 \* originalSize, 0 when neither tells one
  saves,         \* the saves completed so far: [via, bytes], oldest first
  writable,      \* tryStreamToFile's writable: "none", "closed", "aborted"
  \* ---- registry, upload cache and one share request (server side)
  sharedBlobs,   \* the registry: hash -> SharedBlobRecord
  blobStore,     \* ContentStore: the byte strings ingested so far
  tmpFiles,      \* upload cache: the staged temp files on disk
  unlinks,       \* temp files whose unlink was issued and has not completed
  shPc,          \* "idle", "stat", "import", "share", "addBytes", "textShare",
                 \* "responded"
  shReq,         \* the share request being handled
  shStatus,      \* http status of its response, 0 while none
  shRecord,      \* the record sent back: <<record>>, or <<>> for none
  shCount,       \* share requests received so far
  \* ---- the sharing and inspecting client
  sharedFiles,   \* createTorrent: entries of sharedFiles, oldest first
  metadata,      \* downloadTorrent: the inspect response, <<>> while none
  \* ---- history
  shOutcome,     \* how the request ended: "none", "ok", or the step that failed
  shRegBefore,   \* the registry when the request arrived
  \* ---- one inspect, download or preview request: its store calls and answer
  storeOps,      \* the calls made on the ContentStore so far, in order
  srvInfo,       \* the JSON body of the response: <<body>>, or <<>> for none
  \* ---- the chunk plan of one attemptChunkedDownload
  plan,          \* the ranges computed so far: [start, end] for index 0, 1, ..
  \* ---- the WebSocket server: rooms and connections
  peerHeap,      \* the reachable LANPeer objects: object -> its fields
  setHeap,       \* the reachable Set<LANPeer> objects: object -> its peers in
                 \* insertion order
  rooms,         \* Map subnet -> Set object
  explicitRooms, \* Map roomId -> Set object
  readyState,    \* connection -> "none" (not yet connected), "open", "closed"
  currentPeer,   \* connection -> its LANPeer object, 0 for null
  currentRoom,   \* connection -> its Set object, 0 for null
  isExplicitRoom, \* connection -> BOOLEAN
  wsLast,        \* the MESSAGE handled by the last step, NoEvent otherwise
  wsSent,        \* the connections that MESSAGE was sent to, in order
  \* ---- downloadTorrent calls running side by side in one page
  downloadingFiles, \* the downloadingFiles state: its entries, newest first
  sessPc,        \* call -> "off", "running", "done", "failed"
  sessId,        \* call -> its downloadId, NoId before it has one
  sessReceived   \* call -> the receivedBytes of its last trackProgress

srvVars == <<srvPc, srvKind, srvReqRange, srvChunkSize, srvRange, srvOffset,
             srvYielded, srvReads, srvStatus>>
storeVars == <<blob, compression>>
envVars == <<original, honorsRange, online>>
cliVars == <<state, acceptRanges, compressedSize, chunkCount, chunks, nextIndex,
             downloaded, wpc, wIndex, wAttempt, streamPc, received, assembled,
             finalBlob, saved, toast, claimed, okAttempt, wOnlineFails,
             doneOrder, failure, receivedBytes, entry, originalSizeHeader, saves,
             writable>>
shareVars == <<sharedBlobs, blobStore, tmpFiles, unlinks, shPc, shReq, shStatus,
               shRecord, shCount, sharedFiles, metadata, shOutcome, shRegBefore>>
uploadVars == <<sharedBlobs, tmpFiles, unlinks, shPc, shReq, shStatus, shRecord,
                shCount, sharedFiles, metadata, shOutcome, shRegBefore>>
reqVars == <<storeOps, srvInfo>>
planVars == <<plan>>
wsVars == <<peerHeap, setHeap, rooms, explicitRooms, readyState, currentPeer,
            currentRoom, isExplicitRoom, wsLast, wsSent>>
listVars == <<downloadingFiles, sessPc, sessId, sessReceived>>
extVars == <<reqVars, planVars, wsVars, listVars>>
srvOthers == <<envVars, cliVars, uploadVars, planVars, wsVars, listVars>>
vars == <<storeVars, srvVars, envVars, cliVars, shareVars, extVars>>

\* ------------------------------------------------------------------ bounds
MaxBlobLen == 5        \* longest original blob, in units
MaxChunkArg == 3       \* largest chunkSize argument handed to getBlobStream
MaxShares == 2         \* share requests received in one run
MaxPlanSpan == 2       \* sizes planned above the large-blob threshold
MaxPeers == 3          \* LANPeer objects reachable at once
MaxReceived == 2       \* transport size, in units, of a ticket downloaded side by side

\* ------------------------------------------------------- program constants
STREAM_CHUNK_SIZE == 1      \* getBlobStream default chunkSize = 256 * 1024
DOWNLOAD_CHUNK_SIZE == 2    \* 512 * 1024
MAX_PARALLEL_CHUNKS == 2    \* 4 in the source; scaled with the blob sizes
MAX_CHUNK_RETRIES == 3

Min(a, b) == IF a < b THEN a ELSE b
Max(a, b) == IF a > b THEN a ELSE b

\* ------------------------------------------------------------ byte strings
\* Concatenation of a sequence of buffers, in sequence order (new Blob(parts)).
RECURSIVE Flatten(_)
Flatten(parts) ==
  CHOOSE joined \in
    {IF p = <<>> THEN <<>> ELSE Head(p) \o Flatten(Tail(p)) : p \in {parts}} : TRUE

\* Bytes s..e (0-based, inclusive) of b; empty when the range is empty.
Slice(b, s, e) == SubSeq(b, s + 1, e + 1)

Ramp(n) == [i \in 1..n |-> i]          \* all bytes distinct
Flat(n) == [i \in 1..n |-> 1]          \* one long run: compresses well
Originals == {Ramp(n) : n \in 0..MaxBlobLen} \cup {Flat(n) : n \in 0..MaxBlobLen}

\* The content hash and the ticket made of it.
HashOf(bytes) == <<"hash", bytes>>
TicketOf(hash) == <<"ticket", hash>>

\* A number that is not there (undefined, or a form field that was not sent).
NoSize == -1

\* gzip is modelled as run-length coding behind a magic byte: a run of c
\* copies of byte v becomes the single token v * RunBase + c.
GzMagic == 0
RunBase == 16

RECURSIVE RunLen(_)
RunLen(b) ==
  IF Len(b) <= 1 THEN Len(b)
  ELSE IF b[2] = b[1] THEN 1 + RunLen(Tail(b)) ELSE 1

RECURSIVE Runs(_)
Runs(b) ==
  IF b = <<>> THEN <<>>
  ELSE LET c == RunLen(b)
       IN <<b[1] * RunBase + c>> \o Runs(SubSeq(b, c + 1, Len(b)))

gzipSync(b) == <<GzMagic>> \o Runs(b)

RECURSIVE Expand(_)
Expand(t) ==
  IF t = <<>> THEN <<>>
  ELSE [i \in 1..(t[1] % RunBase) |-> t[1] \div RunBase] \o Expand(Tail(t))

IsGzip(b) ==
  /\ Len(b) >= 1
  /\ b[1] = GzMagic
  /\ \A i \in 2..Len(b) : b[i] >= RunBase /\ b[i] % RunBase >= 1

gunzipSync(b) == Expand(Tail(b))

\* ================================================================ server
\* blobs.readAtToBytes(hash, offset, {AtMost, len}): at most len bytes from offset.
readAtToBytes(b, offset, len) == Slice(b, offset, Min(offset + len, Len(b)) - 1)

NoRange == [start |-> -1, end |-> -2]

\* getBlobStream: the range the iterator will cover.
StartOffsetNoFloor(range, size) ==
  IF range = NoRange THEN 0 ELSE Min(range.start, size - 1)
StartOffset(range, size) ==
  IF range = NoRange THEN 0 ELSE Max(0, Min(range.start, size - 1))
EndOffset(range, size) ==
  IF range = NoRange THEN size - 1 ELSE Min(range.end, size - 1)

\* chunkIterator: length asked of the store for one read.
ReadLenNoPlusOne(offset, endOffset, maxChunk) == Min(endOffset - offset, maxChunk)
ReadLen(offset, endOffset, maxChunk) == Min(endOffset - offset + 1, maxChunk)

\* chunkIterator run to its end: the buffers it yields, in order.
RECURSIVE IterAll(_, _, _, _)
IterFrom(b, offset, endOffset, maxChunk, bytes) ==
  IF offset > endOffset \/ Len(bytes) = 0 THEN <<>>
  ELSE <<bytes>> \o IterAll(b, offset + Len(bytes), endOffset, maxChunk)
IterAll(b, offset, endOffset, maxChunk) ==
  CHOOSE yielded \in
    {IterFrom(b, o, e, maxChunk, readAtToBytes(b, o, ReadLen(o, e, maxChunk))) :
       o \in {offset}, e \in {endOffset}} : TRUE

\* ------------------------------------------------------ ContentStore calls
\* One call on the store: what was called, how it settled ("true", "false",
\* "ok" or "throws") and, for a read, the offset and the length asked for.
StoreCall(op, result) == [op |-> op, result |-> result, offset |-> -1, len |-> -1]
ReadCall(offset, len, result) ==
  [op |-> "readAt", result |-> result, offset |-> offset, len |-> len]

\* ensureBlobAvailable(ticket): blobs.has(hash) and, for a blob the node does
\* not hold, net.addNodeAddr and blobs.download; failing names the call that
\* throws, "ok" when none does.
ensureBlobAvailable(local, failing) ==
  IF failing = "has" THEN <<StoreCall("has", "throws")>>
  ELSE IF local THEN <<StoreCall("has", "true")>>
  ELSE IF failing = "addNodeAddr"
  THEN <<StoreCall("has", "false"), StoreCall("addNodeAddr", "throws")>>
  ELSE <<StoreCall("has", "false"), StoreCall("addNodeAddr", "ok"),
         StoreCall("download", IF failing = "download" THEN "throws" ELSE "ok")>>

\* inspectTicket, getBlobStream, getPreviewChunk: await ensureBlobAvailable
\* comes before the function's own calls on the store.
EnsureLast(ensure, calls) == calls \o ensure
EnsureFirst(ensure, calls) == ensure \o calls

\* What can fail before a request's own store calls: BlobTicket.fromString
\* or one of ensureBlobAvailable's calls.
TicketFailures == {"parse", "has", "addNodeAddr", "download"}

\* The ticket does not parse, or its blob cannot be made available.
TicketFails(failing) ==
  /\ failing \in {"addNodeAddr", "download"} => blob \notin blobStore
  /\ storeOps' = IF failing = "parse" THEN <<>>
                 ELSE EnsureFirst(ensureBlobAvailable(blob \in blobStore, failing), <<>>)
  /\ UNCHANGED blobStore

\* The ticket parses and its blob is or becomes available; calls are the
\* store calls the function then makes.
TicketResolves(calls) ==
  /\ storeOps' = EnsureFirst(ensureBlobAvailable(blob \in blobStore, "ok"), calls)
  /\ blobStore' = blobStore \cup {blob}

\* ---------------------------------------------------------- server actions
RangeArgs ==
  {NoRange} \cup {[start |-> s, end |-> e] : s \in -1..(MaxBlobLen + 1),
                                              e \in -1..(MaxBlobLen + 1)}

\* Range headers of the form bytes=s-e a client sends for an existing range.
RangeHeaders ==
  {NoRange} \cup {[start |-> s, end |-> e] : s \in 0..MaxBlobLen, e \in 0..MaxBlobLen}

SrvIdle ==
  /\ srvPc = "idle" /\ srvKind = "none" /\ srvReqRange = NoRange
  /\ srvChunkSize = STREAM_CHUNK_SIZE /\ srvRange = NoRange /\ srvOffset = 0
  /\ srvYielded = <<>> /\ srvReads = <<>> /\ srvStatus = 0
  /\ storeOps = <<>> /\ srvInfo = <<>>

\* getBlobStream(ticket, chunkSize, range) up to its return.
GetBlobStream(chunkSize, range) ==
  /\ srvPc = "idle"
  /\ srvKind' = "api"
  /\ srvReqRange' = range
  /\ srvChunkSize' = chunkSize
  /\ srvRange' = [start |-> StartOffset(range, Len(blob)),
                  end |-> EndOffset(range, Len(blob))]
  /\ srvOffset' = StartOffset(range, Len(blob))
  /\ srvPc' = "iter"
  /\ TicketResolves(<<StoreCall("size", "ok")>>)
  /\ UNCHANGED <<srvYielded, srvReads, srvStatus, storeVars, srvInfo>>

\* BlobTicket.fromString, ensureBlobAvailable or blobs.size throws:
\* getBlobStream rejects.
GetBlobStreamThrows ==
  /\ srvPc = "idle"
  /\ srvKind' = "api"
  /\ srvPc' = "error"
  /\ \/ \E failing \in TicketFailures : TicketFails(failing)
     \/ TicketResolves(<<StoreCall("size", "throws")>>)
  /\ UNCHANGED <<srvReqRange, srvChunkSize, srvRange, srvOffset, srvYielded,
                 srvReads, srvStatus, storeVars, srvInfo>>

\* handleDownloadTicket up to the first read: getBlobStream(ticket) is called
\* with the default chunk size and without a range, whatever the request's
\* Range header says; status stays the default 200.
HandleDownloadTicket(rangeHeader) ==
  /\ srvPc = "idle"
  /\ srvKind' = "http"
  /\ srvReqRange' = rangeHeader
  /\ srvChunkSize' = STREAM_CHUNK_SIZE
  /\ srvRange' = [start |-> StartOffset(NoRange, Len(blob)),
                  end |-> EndOffset(NoRange, Len(blob))]
  /\ srvOffset' = StartOffset(NoRange, Len(blob))
  /\ srvStatus' = 200
  /\ srvPc' = "iter"
  /\ TicketResolves(<<StoreCall("size", "ok")>>)
  /\ UNCHANGED <<srvYielded, srvReads, storeVars, srvInfo>>

\* handleDownloadTicket: the request names no ticket, or getBlobStream threw;
\* res.status(400).json(...).
HandleDownloadTicketFails(rangeHeader) ==
  /\ srvPc = "idle"
  /\ srvKind' = "http"
  /\ srvReqRange' = rangeHeader
  /\ srvStatus' = 400
  /\ srvPc' = "error"
  /\ \/ storeOps' = <<>> /\ UNCHANGED blobStore
     \/ \E failing \in TicketFailures : TicketFails(failing)
     \/ TicketResolves(<<StoreCall("size", "throws")>>)
  /\ UNCHANGED <<srvChunkSize, srvRange, srvOffset, srvYielded, srvReads, storeVars,
                 srvInfo>>

\* One iteration of chunkIterator's loop (and, for http, res.write(chunk));
\* the loop's exit ends the iterator (http: res.end()).
IterNext ==
  /\ srvPc = "iter"
  /\ IF srvOffset > srvRange.end
     THEN /\ srvPc' = "done"
          /\ UNCHANGED <<srvOffset, srvYielded, srvReads, storeOps>>
     ELSE LET len == ReadLen(srvOffset, srvRange.end, srvChunkSize)
              bytes == readAtToBytes(blob, srvOffset, len)
          IN /\ srvReads' = Append(srvReads, srvOffset)
             /\ storeOps' = Append(storeOps, ReadCall(srvOffset, len, "ok"))
             /\ IF Len(bytes) = 0
                THEN /\ srvPc' = "done"
                     /\ UNCHANGED <<srvOffset, srvYielded>>
                ELSE /\ srvOffset' = srvOffset + Len(bytes)
                     /\ srvYielded' = Append(srvYielded, bytes)
                     /\ srvPc' = "iter"
  /\ UNCHANGED <<srvKind, srvReqRange, srvChunkSize, srvRange, srvStatus, storeVars,
                 srvInfo, blobStore>>

\* node.blobs.readAtToBytes throws inside chunkIterator's loop.  A consumer
\* of getBlobStream sees the iterator reject.  handleDownloadTicket's catch
\* calls res.status(400).json(...): before the first res.write the headers
\* have not left and the 400 is the response; after it they have, setting a
\* header throws, the handler's promise rejects and nothing ends the
\* response, which stays open with status 200 and the chunks written so far.
ErrorBody == <<[error |-> "Failed to download ticket data"]>>
IterReadThrows ==
  /\ srvPc = "iter" /\ srvOffset <= srvRange.end
  /\ srvReads' = Append(srvReads, srvOffset)
  /\ storeOps' = Append(storeOps,
                        ReadCall(srvOffset,
                                 ReadLen(srvOffset, srvRange.end, srvChunkSize),
                                 "throws"))
  /\ IF srvKind = "http"
     THEN IF srvYielded = <<>>
          THEN srvStatus' = 400 /\ srvPc' = "error" /\ srvInfo' = ErrorBody
          ELSE srvPc' = "open" /\ srvInfo' = ErrorBody /\ UNCHANGED srvStatus
     ELSE srvPc' = "error" /\ UNCHANGED <<srvStatus, srvInfo>>
  /\ UNCHANGED <<srvKind, srvReqRange, srvChunkSize, srvRange, srvOffset, srvYielded,
                 storeVars, blobStore>>

\* The request is over; the server takes the next one.
SrvNextRequest ==
  /\ srvPc \in {"done", "answered", "error"}
  /\ srvPc' = "idle" /\ srvKind' = "none" /\ srvReqRange' = NoRange
  /\ srvChunkSize' = STREAM_CHUNK_SIZE /\ srvRange' = NoRange /\ srvOffset' = 0
  /\ srvYielded' = <<>> /\ srvReads' = <<>> /\ srvStatus' = 0
  /\ storeOps' = <<>> /\ srvInfo' = <<>>
  /\ UNCHANGED <<storeVars, blobStore>>

\* ================================================================ client
LARGE_BLOB_UNITS == 800     \* 200 * 1024 * 1024
LARGE_CHUNK_SIZE == 4       \* 1024 * 1024

Workers == 1..MAX_PARALLEL_CHUNKS
NoBuf == <<-1>>             \* a slot of chunks nothing was stored in
NoFile == <<-1>>            \* nothing was handed to saveBlobToDisk

chooseChunkSize(bytes) ==
  IF bytes > LARGE_BLOB_UNITS THEN LARGE_CHUNK_SIZE ELSE DOWNLOAD_CHUNK_SIZE

\* Math.ceil(compressedSize / chunkSize)
ChunkCountOf(size) == (size + chooseChunkSize(size) - 1) \div chooseChunkSize(size)

\* fetchChunk: the range of chunk index.
ChunkStart(index) == index * chooseChunkSize(compressedSize)
ChunkEndPastLast(index) ==
  Min(compressedSize - 1, ChunkStart(index) + chooseChunkSize(compressedSize))
ChunkEnd(index) ==
  Min(compressedSize - 1, ChunkStart(index) + chooseChunkSize(compressedSize) - 1)

\* What handleDownloadTicket sends for a request, as one value.
DownloadResponse(b, rangeHeader) ==
  [status |-> 200,
   body |-> Flatten(IterAll(b, StartOffset(NoRange, Len(b)), EndOffset(NoRange, Len(b)),
                            STREAM_CHUNK_SIZE))]

\* An endpoint that serves the Range header through getBlobStream's range.
RangedResponse(b, rangeHeader) ==
  [status |-> 206,
   body |-> Flatten(IterAll(b, StartOffset(rangeHeader, Len(b)),
                            EndOffset(rangeHeader, Len(b)), STREAM_CHUNK_SIZE))]

EndpointResponse(rangeHeader) ==
  IF honorsRange /\ rangeHeader # NoRange
  THEN RangedResponse(blob, rangeHeader)
  ELSE DownloadResponse(blob, rangeHeader)

\* chunks[index] = buffer
StoreChunkAppend(arr, index, buffer) ==
  LET free == {i \in DOMAIN arr : arr[i] = NoBuf}
      slot == IF free = {} THEN index
              ELSE CHOOSE i \in free : \A j \in free : i <= j
  IN [arr EXCEPT ![slot] = buffer]
StoreChunk(arr, index, buffer) == [arr EXCEPT ![index] = buffer]

\* new Blob(chunks)
BlobOf(arr, n) == Flatten([i \in 1..n |-> arr[i - 1]])

\* worker: nextIndex += 1
AdvanceCursorLate(current) == current
AdvanceCursor(current) == current + 1

\* Array.from({ length: Math.min(MAX_PARALLEL_CHUNKS, chunkCount) }, worker)
WorkerCountFull(count) == MAX_PARALLEL_CHUNKS
WorkerCount(count) == Min(MAX_PARALLEL_CHUNKS, count)

\* The cursor after k claims made one after the other.
RECURSIVE CursorAfter(_)
CursorAfter(k) == IF k = 0 THEN 0 ELSE AdvanceCursor(CursorAfter(k - 1))

\* await Promise.all(workers) resolves.
SomeWorkerReturned == \E w \in Workers : wpc[w] = "returned"
EveryWorkerReturned == \A w \in Workers : wpc[w] = "returned"
AllWorkersReturned == \A w \in Workers : wpc[w] \in {"off", "returned"}

\* attemptChunkedDownload: the chunked transfer is used when the probe told a
\* size and accept-ranges: bytes.
UseChunkedAnySize(size, ranges) == ranges
UseChunked(size, ranges) == size # 0 /\ ranges

\* downloadTorrent's catch: where a rejected attemptChunkedDownload leaves the session.
AfterChunkedErrorFallback == "StreamingTransfer"
AfterChunkedErrorDone == "Done"
AfterChunkedError == "Failed"

\* maybeDecompressBlob rethrows when gunzipSync failed too; the error reaches
\* downloadTorrent's catch.
AfterDecompressErrorKeepsBlob == "Persisting"
AfterDecompressError == "Failed"

\* maybeDecompressBlob
DecompressThrows(b, tag) == tag = "gzip" /\ ~IsGzip(b)
maybeDecompressBlob(b, tag) == IF tag = "gzip" THEN gunzipSync(b) ELSE b

\* ------------------------------------------------------ the session's entry
\* a || b for sizes: undefined and 0 give b.
OrElse(a, b) == IF a > 0 THEN a ELSE b

\* downloadTorrent: the placeholder entry put in front of downloadingFiles;
\* meta is the inspect response, <<>> when it failed.  progress is held as
\* the pair <<numerator, denominator>> of the percentage.
NoEntry == <<>>
Placeholder(meta) ==
  <<[connecting |-> TRUE, downloading |-> TRUE, progress |-> <<0, 1>>,
     downloadedSize |-> NoSize,
     size |-> IF meta = <<>> THEN 0
              ELSE OrElse(meta[1].originalSize, OrElse(meta[1].size, 0))]>>

\* trackProgress(n): the session's entry, when it is still listed, is updated.
trackProgress(e, n) ==
  IF e = NoEntry THEN NoEntry
  ELSE <<[e[1] EXCEPT !.connecting = FALSE,
                      !.progress = IF compressedSize # 0 THEN <<n * 100, compressedSize>>
                                   ELSE @,
                      !.downloadedSize = n]>>

\* downloadTorrent after the transfer returned: the entry is marked finished.
MarkDone(e) ==
  IF e = NoEntry THEN NoEntry
  ELSE <<[e[1] EXCEPT !.downloading = FALSE,
                      !.connecting = FALSE,
                      !.progress = <<100, 1>>,
                      !.downloadedSize =
                         OrElse(originalSizeHeader,
                                OrElse(compressedSize, OrElse(@, OrElse(e[1].size, 0))))]>>

\* parseNumberHeader(head, 'x-original-size') || metadata?.originalSize: the
\* handler sends the header for a record whose originalSize is not 0.
OriginalSizeHeader(headOk) ==
  LET hash == HashOf(blob)
      fromHead == IF headOk /\ hash \in DOMAIN sharedBlobs
                  THEN sharedBlobs[hash].originalSize ELSE 0
      fromMeta == IF metadata # <<>> THEN metadata[1].originalSize ELSE 0
  IN OrElse(fromHead, OrElse(fromMeta, 0))

\* compressedSize: content-length of the HEAD answer, else the inspected
\* compressedSize, else unknown (0).
ProbedSize(headOk) ==
  IF headOk THEN Len(blob)
  ELSE IF metadata # <<>> THEN metadata[1].compressedSize ELSE 0

\* A save that completed: a file the streaming write closed ("stream"),
\* saveBlobToDisk's write into a picked file ("picker") or its download link
\* ("link").
SaveEvent(via, b) == [via |-> via, bytes |-> b]

\* saveBlobToDisk: the download link alone (no File System Access API, or the
\* picker or the write failed); the write into the picked file alone; or the
\* write into the picked file followed by the link, when writable.close()
\* rejects after the pipe has closed the file.
SaveRoutes == {"link", "picker", "pickerThenLink"}
SaveEvents(route, b) ==
  IF route = "link" THEN <<SaveEvent("link", b)>>
  ELSE IF route = "picker" THEN <<SaveEvent("picker", b)>>
  ELSE <<SaveEvent("picker", b), SaveEvent("link", b)>>

\* ---------------------------------------------------------- client actions
\* downloadTorrent is called.
StartDownload ==
  /\ state = "Idle"
  /\ state' = "Probing"
  /\ UNCHANGED <<acceptRanges, compressedSize, chunkCount, chunks, nextIndex,
                 downloaded, wpc, wIndex, wAttempt, streamPc, received, assembled,
                 finalBlob, saved, toast, claimed, okAttempt, wOnlineFails>>
  /\ UNCHANGED doneOrder
  /\ UNCHANGED failure
  /\ entry' = Placeholder(metadata)
  /\ UNCHANGED <<receivedBytes, originalSizeHeader, saves, writable>>
  /\ UNCHANGED <<storeVars, srvVars, envVars, shareVars, extVars>>

\* The HEAD probe answers with a size and accept-ranges: bytes, and
\* attemptChunkedDownload starts its workers; each runs to its first fetch.
ProbeThenChunked ==
  /\ state = "Probing"
  /\ online
  /\ UseChunked(Len(blob), TRUE)
  /\ LET size == Len(blob)
         count == ChunkCountOf(size)
         n == WorkerCount(count)
     IN /\ acceptRanges' = TRUE
        /\ compressedSize' = size
        /\ chunkCount' = count
        /\ chunks' = [i \in 0..(count - 1) |-> NoBuf]
        /\ downloaded' = 0
        /\ nextIndex' = CursorAfter(n)
        /\ wpc' = [w \in Workers |-> IF w <= n THEN "fetch" ELSE "off"]
        /\ wIndex' = [w \in Workers |-> IF w <= n THEN CursorAfter(w - 1) ELSE 0]
        /\ wAttempt' = [w \in Workers |-> 0]
        /\ wOnlineFails' = [w \in Workers |-> 0]
        /\ claimed' = [i \in 0..(count - 1) |->
                         Cardinality({w \in 1..n : CursorAfter(w - 1) = i})]
        /\ okAttempt' = [i \in 0..(count - 1) |-> -1]
  /\ state' = "ChunkedTransfer"
  /\ UNCHANGED <<streamPc, received, assembled, finalBlob, saved, toast>>
  /\ UNCHANGED doneOrder
  /\ UNCHANGED failure
  /\ originalSizeHeader' = OriginalSizeHeader(TRUE)
  /\ UNCHANGED <<entry, receivedBytes, saves, writable>>
  /\ UNCHANGED <<storeVars, srvVars, envVars, shareVars, extVars>>

\* The probe failed, or told no size, or did not advertise byte ranges:
\* attemptChunkedDownload returns false and fallbackStreamDownload fetches.
ProbeThenStreaming(headOk, ranges) ==
  /\ state = "Probing"
  /\ headOk => online
  /\ ~UseChunked(ProbedSize(headOk), headOk /\ ranges)
  /\ acceptRanges' = (headOk /\ ranges)
  /\ compressedSize' = ProbedSize(headOk)
  /\ state' = "StreamingTransfer"
  /\ streamPc' = "fetch"
  /\ UNCHANGED <<chunkCount, chunks, nextIndex, downloaded, wpc, wIndex, wAttempt,
                 received, assembled, finalBlob, saved, toast, claimed, okAttempt,
                 wOnlineFails>>
  /\ UNCHANGED doneOrder
  /\ UNCHANGED failure
  /\ originalSizeHeader' = OriginalSizeHeader(headOk)
  /\ UNCHANGED <<entry, receivedBytes, saves, writable>>
  /\ UNCHANGED <<storeVars, srvVars, envVars, shareVars, extVars>>

\* fetchChunk: the ranged fetch of worker w answers ok; the buffer is stored.
WorkerFetchOk(w) ==
  /\ wpc[w] = "fetch"
  /\ online
  /\ \E index \in {wIndex[w]} :
       \E resp \in {EndpointResponse([start |-> ChunkStart(index),
                                      end |-> ChunkEnd(index)])} :
         /\ chunks' = StoreChunk(chunks, index, resp.body)
         /\ downloaded' = downloaded + Len(resp.body)
         /\ okAttempt' = [okAttempt EXCEPT ![index] = wAttempt[w]]
  /\ wpc' = [wpc EXCEPT ![w] = "claim"]
  /\ UNCHANGED <<state, acceptRanges, compressedSize, chunkCount, nextIndex, wIndex,
                 wAttempt, streamPc, received, assembled, finalBlob, saved, toast,
                 claimed, wOnlineFails>>
  /\ doneOrder' = Append(doneOrder, wIndex[w])
  /\ UNCHANGED failure
  /\ receivedBytes' = downloaded'
  /\ entry' = trackProgress(entry, downloaded')
  /\ UNCHANGED <<originalSizeHeader, saves, writable>>
  /\ UNCHANGED <<storeVars, srvVars, envVars, shareVars, extVars>>

\* fetchChunk: the fetch rejects or answers an error status; catch block up to
\* its first await.
WorkerFetchFail(w) ==
  /\ wpc[w] = "fetch"
  /\ wAttempt' = [wAttempt EXCEPT ![w] = @ + 1]
  /\ wOnlineFails' = [wOnlineFails EXCEPT ![w] = IF online THEN @ + 1 ELSE @]
  /\ wpc' = [wpc EXCEPT ![w] = IF online THEN "sleep" ELSE "waitOnline"]
  /\ UNCHANGED <<state, acceptRanges, compressedSize, chunkCount, chunks, nextIndex,
                 downloaded, wIndex, streamPc, received, assembled, finalBlob, saved,
                 toast, claimed, okAttempt>>
  /\ UNCHANGED doneOrder
  /\ UNCHANGED failure
  /\ UNCHANGED <<entry, receivedBytes, originalSizeHeader, saves, writable>>
  /\ UNCHANGED <<storeVars, srvVars, envVars, shareVars, extVars>>

\* fetchChunk: sleep(RETRY_BASE_DELAY_MS * attempt) is over; throw when the
\* budget is used up (downloadTorrent's catch then ends the session), else
\* fetch again.
WorkerSleepDone(w) ==
  /\ wpc[w] = "sleep"
  /\ IF wAttempt[w] >= MAX_CHUNK_RETRIES
     THEN /\ wpc' = [wpc EXCEPT ![w] = "threw"]
          /\ IF state = "ChunkedTransfer"
             THEN /\ state' = AfterChunkedError
                  /\ toast' = TRUE
                  /\ streamPc' = IF AfterChunkedError = "StreamingTransfer"
                                 THEN "fetch" ELSE streamPc
                  /\ failure' = "chunk"
             ELSE UNCHANGED <<state, toast, streamPc, failure>>
     ELSE /\ wpc' = [wpc EXCEPT ![w] = "fetch"]
          /\ UNCHANGED <<state, toast, streamPc, failure>>
  /\ UNCHANGED <<acceptRanges, compressedSize, chunkCount, chunks, nextIndex,
                 downloaded, wIndex, wAttempt, received, assembled, finalBlob,
                 saved, claimed, okAttempt, wOnlineFails>>
  /\ UNCHANGED doneOrder
  /\ entry' = IF wAttempt[w] >= MAX_CHUNK_RETRIES /\ state = "ChunkedTransfer"
               THEN NoEntry ELSE entry
  /\ UNCHANGED <<receivedBytes, originalSizeHeader, saves, writable>>
  /\ UNCHANGED <<storeVars, srvVars, envVars, shareVars, extVars>>

\* worker: one turn of the loop after fetchChunk returned.
WorkerClaim(w) ==
  /\ wpc[w] = "claim"
  /\ LET current == nextIndex
     IN IF current >= chunkCount
        THEN /\ wpc' = [wpc EXCEPT ![w] = "returned"]
             /\ UNCHANGED <<nextIndex, wIndex, wAttempt, wOnlineFails, claimed>>
        ELSE /\ nextIndex' = AdvanceCursor(current)
             /\ wIndex' = [wIndex EXCEPT ![w] = current]
             /\ wAttempt' = [wAttempt EXCEPT ![w] = 0]
             /\ wOnlineFails' = [wOnlineFails EXCEPT ![w] = 0]
             /\ claimed' = [claimed EXCEPT ![current] = @ + 1]
             /\ wpc' = [wpc EXCEPT ![w] = "fetch"]
  /\ UNCHANGED <<state, acceptRanges, compressedSize, chunkCount, chunks, downloaded,
                 streamPc, received, assembled, finalBlob, saved, toast, okAttempt>>
  /\ UNCHANGED doneOrder
  /\ UNCHANGED failure
  /\ UNCHANGED <<entry, receivedBytes, originalSizeHeader, saves, writable>>
  /\ UNCHANGED <<storeVars, srvVars, envVars, shareVars, extVars>>

\* Promise.all(workers) resolved: new Blob(chunks) goes to maybeDecompressBlob.
AssembleChunks ==
  /\ state = "ChunkedTransfer"
  /\ AllWorkersReturned
  /\ assembled' = BlobOf(chunks, chunkCount)
  /\ state' = "Decompressing"
  /\ UNCHANGED <<acceptRanges, compressedSize, chunkCount, chunks, nextIndex,
                 downloaded, wpc, wIndex, wAttempt, streamPc, received, finalBlob,
                 saved, toast, claimed, okAttempt, wOnlineFails>>
  /\ UNCHANGED doneOrder
  /\ UNCHANGED failure
  /\ UNCHANGED <<entry, receivedBytes, originalSizeHeader, saves, writable>>
  /\ UNCHANGED <<storeVars, srvVars, envVars, shareVars, extVars>>

\* fallbackStreamDownload: the full-body fetch answers.
StreamResponseOk ==
  /\ state = "StreamingTransfer" /\ streamPc = "fetch"
  /\ online
  /\ streamPc' = "read"
  /\ UNCHANGED <<state, acceptRanges, compressedSize, chunkCount, chunks, nextIndex,
                 downloaded, wpc, wIndex, wAttempt, received, assembled, finalBlob,
                 saved, toast, claimed, okAttempt, wOnlineFails>>
  /\ UNCHANGED doneOrder
  /\ UNCHANGED failure
  /\ UNCHANGED <<entry, receivedBytes, originalSizeHeader, saves, writable>>
  /\ UNCHANGED <<storeVars, srvVars, envVars, shareVars, extVars>>

\* fallbackStreamDownload: the fetch rejects or is not ok; the error reaches
\* downloadTorrent's catch.
StreamResponseFails ==
  /\ state = "StreamingTransfer" /\ streamPc = "fetch"
  /\ streamPc' = "end"
  /\ state' = "Failed"
  /\ toast' = TRUE
  /\ failure' = "fetch"
  /\ UNCHANGED <<acceptRanges, compressedSize, chunkCount, chunks, nextIndex,
                 downloaded, wpc, wIndex, wAttempt, received, assembled, finalBlob,
                 saved, claimed, okAttempt, wOnlineFails>>
  /\ UNCHANGED doneOrder
  /\ entry' = NoEntry
  /\ UNCHANGED <<receivedBytes, originalSizeHeader, saves, writable>>
  /\ UNCHANGED <<storeVars, srvVars, envVars, shareVars, extVars>>

\* fallbackStreamDownload, tryStreamToFile: the File System Access API is
\* there (and DecompressionStream when the tag is gzip), the user picked a
\* file, and the body was piped through the progress transform and the
\* decompressor into it; pipeTo closes the file when the body ends.
PipeCompletes ==
  /\ state = "StreamingTransfer" /\ streamPc = "read"
  /\ received = <<>>
  /\ online
  /\ ~DecompressThrows(DownloadResponse(blob, NoRange).body, compression)
  /\ receivedBytes' = Len(DownloadResponse(blob, NoRange).body)
  /\ saves' = Append(saves,
                     SaveEvent("stream",
                               maybeDecompressBlob(DownloadResponse(blob, NoRange).body,
                                                   compression)))
  /\ writable' = "closed"
  /\ streamPc' = "end"

\* The entry after the progress transform saw the whole body.
PipedEntry ==
  IF Len(DownloadResponse(blob, NoRange).body) > 0
  THEN trackProgress(entry, Len(DownloadResponse(blob, NoRange).body))
  ELSE entry

\* tryStreamToFile on a platform whose writable lets writable.close()
\* through after the pipe: it returns true and the session is finished.
StreamToFile ==
  /\ PipeCompletes
  /\ saved' = maybeDecompressBlob(DownloadResponse(blob, NoRange).body, compression)
  /\ state' = "Done"
  /\ entry' = MarkDone(PipedEntry)
  /\ UNCHANGED <<acceptRanges, compressedSize, chunkCount, chunks, nextIndex,
                 downloaded, wpc, wIndex, wAttempt, received, assembled, finalBlob,
                 toast, claimed, okAttempt, wOnlineFails>>
  /\ UNCHANGED doneOrder
  /\ UNCHANGED failure
  /\ UNCHANGED originalSizeHeader
  /\ UNCHANGED <<storeVars, srvVars, envVars, shareVars, extVars>>

\* tryStreamToFile where close() of a closed WritableStream rejects, as the
\* Streams Standard has it: the file is complete, writable.close() throws,
\* tryStreamToFile returns false and the buffered loop reads the used body,
\* which is at its end.
StreamToFileCloseRejects ==
  /\ PipeCompletes
  /\ assembled' = <<>>
  /\ state' = "Decompressing"
  /\ entry' = PipedEntry
  /\ UNCHANGED <<acceptRanges, compressedSize, chunkCount, chunks, nextIndex,
                 downloaded, wpc, wIndex, wAttempt, received, finalBlob, saved,
                 toast, claimed, okAttempt, wOnlineFails>>
  /\ UNCHANGED doneOrder
  /\ UNCHANGED failure
  /\ UNCHANGED originalSizeHeader
  /\ UNCHANGED <<storeVars, srvVars, envVars, shareVars, extVars>>

\* What the buffered loop finds of response.body after a pipe that failed:
\* the body is still locked or errored (getReader or read throws), or it was
\* cancelled and released (the first read says done).
BodyAfterPipeFailure == {"throws", "closed"}

\* fallbackStreamDownload, tryStreamToFile: the pipe into the picked file
\* fails (the decompressor rejects the body, or reading or writing fails)
\* after the progress transform saw k chunks; pipeTo aborts the writable,
\* tryStreamToFile returns false and the buffered loop runs on what is left
\* of the body.
StreamToFileFails(bodyAfter) ==
  /\ state = "StreamingTransfer" /\ streamPc = "read"
  /\ received = <<>>
  /\ streamPc' = "end"
  /\ IF bodyAfter = "throws"
     THEN /\ state' = "Failed"
          /\ toast' = TRUE
          /\ failure' = "pipe"
          /\ UNCHANGED assembled
     ELSE /\ assembled' = <<>>
          /\ state' = "Decompressing"
          /\ UNCHANGED <<toast, failure>>
  /\ \E k \in 0..Len(IterAll(blob, 0, Len(blob) - 1, STREAM_CHUNK_SIZE)) :
       LET n == Len(Flatten(SubSeq(IterAll(blob, 0, Len(blob) - 1, STREAM_CHUNK_SIZE),
                                   1, k)))
       IN /\ receivedBytes' = n
          /\ entry' = IF bodyAfter = "throws" THEN NoEntry
                      ELSE IF k > 0 THEN trackProgress(entry, n) ELSE entry
  /\ writable' = "aborted"
  /\ UNCHANGED <<originalSizeHeader, saves>>
  /\ UNCHANGED <<acceptRanges, compressedSize, chunkCount, chunks, nextIndex,
                 downloaded, wpc, wIndex, wAttempt, received, finalBlob, saved,
                 claimed, okAttempt, wOnlineFails>>
  /\ UNCHANGED doneOrder
  /\ UNCHANGED <<storeVars, srvVars, envVars, shareVars, extVars>>

\* fallbackStreamDownload: one reader.read(); done ends the loop and the
\* chunks read become the compressedBlob.
StreamRead ==
  /\ state = "StreamingTransfer" /\ streamPc = "read"
  /\ LET body == IterAll(blob, 0, Len(blob) - 1, STREAM_CHUNK_SIZE)
     IN IF Len(received) < Len(body)
        THEN /\ received' = Append(received, body[Len(received) + 1])
             /\ receivedBytes' = Len(Flatten(received'))
             /\ entry' = trackProgress(entry, Len(Flatten(received')))
             /\ UNCHANGED <<state, streamPc, assembled>>
        ELSE /\ assembled' = Flatten(received)
             /\ streamPc' = "end"
             /\ state' = "Decompressing"
             /\ UNCHANGED <<received, receivedBytes, entry>>
  /\ UNCHANGED <<originalSizeHeader, saves, writable>>
  /\ UNCHANGED <<acceptRanges, compressedSize, chunkCount, chunks, nextIndex,
                 downloaded, wpc, wIndex, wAttempt, finalBlob, saved, toast,
                 claimed, okAttempt, wOnlineFails>>
  /\ UNCHANGED doneOrder
  /\ UNCHANGED failure
  /\ UNCHANGED <<storeVars, srvVars, envVars, shareVars, extVars>>

\* maybeDecompressBlob(compressedBlob, compression) settles.
Decompress ==
  /\ state = "Decompressing"
  /\ IF DecompressThrows(assembled, compression)
     THEN /\ state' = AfterDecompressError
          /\ toast' = (AfterDecompressError = "Failed")
          /\ finalBlob' = IF AfterDecompressError = "Failed" THEN finalBlob
                          ELSE assembled
          /\ failure' = "decompress"
     ELSE /\ finalBlob' = maybeDecompressBlob(assembled, compression)
          /\ state' = "Persisting"
          /\ UNCHANGED <<toast, failure>>
  /\ UNCHANGED <<acceptRanges, compressedSize, chunkCount, chunks, nextIndex,
                 downloaded, wpc, wIndex, wAttempt, streamPc, received, assembled,
                 saved, claimed, okAttempt, wOnlineFails>>
  /\ UNCHANGED doneOrder
  /\ entry' = IF DecompressThrows(assembled, compression) THEN NoEntry ELSE entry
  /\ UNCHANGED <<receivedBytes, originalSizeHeader, saves, writable>>
  /\ UNCHANGED <<storeVars, srvVars, envVars, shareVars, extVars>>

\* saveBlobToDisk(finalBlob, fileName) settles; the entry is marked finished.
SaveBlobToDisk ==
  /\ state = "Persisting"
  /\ saved' = finalBlob
  /\ \E route \in SaveRoutes :
       \* a platform whose close() rejected after this session's pipe
       \* rejects it here too
       /\ route = "picker" => writable # "closed"
       /\ saves' = saves \o SaveEvents(route, finalBlob)
  /\ state' = "Done"
  /\ entry' = MarkDone(entry)
  /\ UNCHANGED <<receivedBytes, originalSizeHeader, writable>>
  /\ UNCHANGED <<acceptRanges, compressedSize, chunkCount, chunks, nextIndex,
                 downloaded, wpc, wIndex, wAttempt, streamPc, received, assembled,
                 finalBlob, toast, claimed, okAttempt, wOnlineFails>>
  /\ UNCHANGED doneOrder
  /\ UNCHANGED failure
  /\ UNCHANGED <<storeVars, srvVars, envVars, shareVars, extVars>>

\* The browser loses connectivity.
GoOffline ==
  /\ online
  /\ state \notin {"Idle", "Done"}
  /\ online' = FALSE
  /\ UNCHANGED <<original, honorsRange>>
  /\ UNCHANGED <<storeVars, srvVars, cliVars, shareVars, extVars>>

\* The 'online' event: every waitForOnline() promise resolves.
GoOnline ==
  /\ ~online
  /\ online' = TRUE
  /\ wpc' = [w \in Workers |-> IF wpc[w] = "waitOnline" THEN "sleep" ELSE wpc[w]]
  /\ UNCHANGED <<original, honorsRange>>
  /\ UNCHANGED <<state, acceptRanges, compressedSize, chunkCount, chunks, nextIndex,
                 downloaded, wIndex, wAttempt, streamPc, received, assembled,
                 finalBlob, saved, toast, claimed, okAttempt, wOnlineFails>>
  /\ UNCHANGED doneOrder
  /\ UNCHANGED failure
  /\ UNCHANGED <<entry, receivedBytes, originalSizeHeader, saves, writable>>
  /\ UNCHANGED <<storeVars, srvVars, shareVars, extVars>>

\* ================================================================= share
\* A file name is the sequence of its dot-separated parts, a mime type the
\* pair <<type, subtype>>.  A form field that was not sent is "", <<>> or
\* NoSize, the values JavaScript's || and ?: treat as missing.
ALREADY_COMPRESSED_EXT ==
  {"zip", "gz", "tgz", "bz2", "xz", "7z", "rar", "mp4", "mkv", "webm", "mov",
   "jpg", "jpeg", "png", "gif", "bmp", "pdf"}
TINY_FILE_UNITS == 1        \* 8 * 1024 bytes: of whole units only 0 is below
Space == 32                 \* a character String.prototype.trim removes

CompressibleMime(type) ==
  \/ type[1] = "text"
  \/ type[1] = "application" /\ type[2] \in {"json", "javascript", "xml"}

shouldCompress(file) ==
  IF Len(file.name) >= 2 /\ file.name[Len(file.name)] \in ALREADY_COMPRESSED_EXT
  THEN FALSE
  ELSE IF Len(file.bytes) < TINY_FILE_UNITS THEN FALSE
  ELSE CompressibleMime(file.type)

\* compressed < original * 0.9
compressionWorthwhile(originalLen, compressedLen) == compressedLen * 10 < originalLen * 9

\* compressFileIfUseful; gzipWorks is FALSE when CompressionStream and
\* gzipSync both throw.
compressFileIfUseful(file, gzipWorks) ==
  IF /\ shouldCompress(file)
     /\ gzipWorks
     /\ compressionWorthwhile(Len(file.bytes), Len(gzipSync(file.bytes)))
  THEN [blob |-> gzipSync(file.bytes), compression |-> "gzip",
        originalName |-> file.name, originalSize |-> Len(file.bytes)]
  ELSE [blob |-> file.bytes, compression |-> "none",
        originalName |-> file.name, originalSize |-> Len(file.bytes)]

\* createTorrent: the multipart form it posts to /share-file.
UploadOf(file, owner, gzipWorks) ==
  LET c == compressFileIfUseful(file, gzipWorks)
  IN [bytes |-> c.blob,
      originalname |-> IF c.compression = "gzip" THEN Append(file.name, "gz")
                       ELSE file.name,
      mimetype |-> IF c.compression = "gzip" THEN <<"application", "gzip">>
                   ELSE file.type,
      owner |-> owner,
      originalName |-> c.originalName,
      originalSize |-> c.originalSize,
      compression |-> c.compression]

\* handleFileShare: the options it hands to shareFileFromPath.
ShareOptions(req) ==
  [originalName |-> IF req.originalName = <<>> THEN req.originalname
                    ELSE req.originalName,
   mimeType |-> req.mimetype,
   owner |-> IF req.owner = "" THEN "Anonymous" ELSE req.owner,
   originalSize |-> IF req.originalSize = NoSize THEN Len(req.bytes)
                    ELSE req.originalSize,
   compression |-> IF req.compression = "" THEN "none" ELSE req.compression]

\* shareFileFromPath: the record it builds.
FileRecord(options, statsSize, hash) ==
  [hash |-> hash,
   name |-> options.originalName,
   size |-> options.originalSize,
   compressedSize |-> statsSize,
   mimeType |-> options.mimeType,
   owner |-> options.owner,
   ticket |-> TicketOf(hash),
   originalSize |-> options.originalSize,
   compression |-> options.compression]

\* shareTextContent: the record it builds.
TextRecord(contents, owner, hash) ==
  [hash |-> hash,
   name |-> <<"shared-text", "txt">>,
   size |-> Len(contents),
   compressedSize |-> Len(contents),
   mimeType |-> <<"text", "plain">>,
   owner |-> owner,
   ticket |-> TicketOf(hash),
   originalSize |-> Len(contents),
   compression |-> "none"]

\* inspectTicket: the record made up for a hash the registry does not hold.
FallbackRecord(hash, size) ==
  [hash |-> hash,
   name |-> <<hash, "bin">>,
   size |-> size,
   compressedSize |-> size,
   mimeType |-> <<"application", "octet-stream">>,
   owner |-> "",
   ticket |-> TicketOf(hash),
   originalSize |-> NoSize,
   compression |-> ""]

\* sharedBlobs.set(hash, record)
MapSetByTicket(map, key, value) ==
  [k \in DOMAIN map \cup {value.ticket} |-> IF k = value.ticket THEN value ELSE map[k]]
MapSet(map, key, value) ==
  [k \in DOMAIN map \cup {key} |-> IF k = key THEN value ELSE map[k]]

\* text.trim()
RECURSIVE TrimStart(_)
TrimStart(text) ==
  IF text # <<>> /\ Head(text) = Space THEN TrimStart(Tail(text)) ELSE text
RECURSIVE TrimEnd(_)
TrimEnd(text) ==
  IF text # <<>> /\ text[Len(text)] = Space
  THEN TrimEnd(SubSeq(text, 1, Len(text) - 1)) ELSE text
Trim(text) == TrimEnd(TrimStart(text))

\* The step of shareFileFromPath after which the record is put in the registry.
RecordSetAfterImport == "import"
RecordSetAfter == "share"

\* handleFileShare's finally: the outcomes after which the staged file is unlinked.
UnlinkOnSuccessOnly == {"ok"}
UnlinkAfter == {"ok", "stat", "import", "share"}

\* ----------------------------------------------------------- share actions
NoReq == [kind |-> "none"]
NoUploadFile == [name |-> <<>>, type |-> <<"application", "octet-stream">>, bytes |-> <<>>]
ShareReady == shPc \in {"idle", "responded"}

\* POST /share-file with a file part: multer stages the upload in the upload
\* cache and handleFileShare starts.
StageUpload(upload, via, file) ==
  /\ ShareReady /\ shCount < MaxShares /\ state = "Idle"
  /\ shCount' = shCount + 1
  /\ tmpFiles' = tmpFiles \cup {shCount + 1}
  /\ shReq' = [kind |-> "file", upload |-> upload, tmp |-> shCount + 1,
               via |-> via, file |-> file]
  /\ shPc' = "stat"
  /\ shStatus' = 0 /\ shRecord' = <<>> /\ shOutcome' = "none"
  /\ shRegBefore' = sharedBlobs
  /\ UNCHANGED <<sharedBlobs, blobStore, unlinks, sharedFiles, metadata>>
  /\ UNCHANGED <<storeVars, srvVars, envVars, cliVars, extVars>>

\* createTorrent(file, owner) up to its fetch.
CreateTorrent(file, owner, gzipWorks) ==
  StageUpload(UploadOf(file, owner, gzipWorks), "createTorrent", file)

\* Any other client posting to /share-file.
PostShareFile(upload) == StageUpload(upload, "post", NoUploadFile)

\* handleFileShare: POST /share-file without a file part.
HandleFileShareNoFile ==
  /\ ShareReady /\ shCount < MaxShares /\ state = "Idle"
  /\ shCount' = shCount + 1
  /\ shReq' = [kind |-> "nofile"]
  /\ shPc' = "responded"
  /\ shStatus' = 400 /\ shRecord' = <<>> /\ shOutcome' = "nofile"
  /\ shRegBefore' = sharedBlobs
  /\ UNCHANGED <<sharedBlobs, blobStore, tmpFiles, unlinks, sharedFiles, metadata>>
  /\ UNCHANGED <<storeVars, srvVars, envVars, cliVars, extVars>>

\* handleFileShare: the response is sent (res.json or the catch's 500) and the
\* finally block issues the unlink of the staged file without awaiting it.
FileShareEnds(outcome, record) ==
  /\ shStatus' = IF outcome = "ok" THEN 200 ELSE 500
  /\ shRecord' = IF outcome = "ok" THEN <<record>> ELSE <<>>
  /\ shOutcome' = outcome
  /\ unlinks' = IF outcome \in UnlinkAfter THEN unlinks \cup {shReq.tmp} ELSE unlinks
  /\ shPc' = "responded"

\* shareFileFromPath: fs.stat(filePath) settles.
ShareStat(ok) ==
  /\ shPc = "stat"
  /\ IF ok
     THEN /\ shPc' = "import"
          /\ UNCHANGED <<shStatus, shRecord, shOutcome, unlinks>>
     ELSE FileShareEnds("stat", NoReq)
  /\ UNCHANGED <<sharedBlobs, blobStore, tmpFiles, shReq, shCount, sharedFiles,
                 metadata, shRegBefore>>
  /\ UNCHANGED <<storeVars, srvVars, envVars, cliVars, extVars>>

\* shareFileFromPath: importFileFromPath(filePath) settles.
ShareImport(ok) ==
  /\ shPc = "import"
  /\ LET bytes == shReq.upload.bytes
         hash == HashOf(bytes)
         record == FileRecord(ShareOptions(shReq.upload), Len(bytes), hash)
     IN IF ok
        THEN /\ blobStore' = blobStore \cup {bytes}
             /\ sharedBlobs' = IF RecordSetAfter = "import"
                               THEN MapSet(sharedBlobs, hash, record)
                               ELSE sharedBlobs
             /\ shPc' = "share"
             /\ UNCHANGED <<shStatus, shRecord, shOutcome, unlinks>>
        ELSE /\ FileShareEnds("import", NoReq)
             /\ UNCHANGED <<blobStore, sharedBlobs>>
  /\ UNCHANGED <<tmpFiles, shReq, shCount, sharedFiles, metadata, shRegBefore>>
  /\ UNCHANGED <<storeVars, srvVars, envVars, cliVars, extVars>>

\* createTorrent after an ok response: the entry it puts in sharedFiles.
SharedFileEntry(data, file) ==
  [id |-> data.hash, name |-> data.name, size |-> data.originalSize,
   magnetURI |-> data.ticket, compression |-> data.compression, file |-> file]

\* shareFileFromPath: node.blobs.share(...) settles; on success the record is
\* put in the registry and sent back, and createTorrent lists the file.
ShareTicket(ok) ==
  /\ shPc = "share"
  /\ LET bytes == shReq.upload.bytes
         hash == HashOf(bytes)
         record == FileRecord(ShareOptions(shReq.upload), Len(bytes), hash)
     IN IF ok
        THEN /\ sharedBlobs' = IF RecordSetAfter = "share"
                               THEN MapSet(sharedBlobs, hash, record)
                               ELSE sharedBlobs
             /\ FileShareEnds("ok", record)
             /\ sharedFiles' = IF shReq.via = "createTorrent"
                               THEN Append(sharedFiles, SharedFileEntry(record, shReq.file))
                               ELSE sharedFiles
        ELSE /\ FileShareEnds("share", NoReq)
             /\ UNCHANGED <<sharedBlobs, sharedFiles>>
  /\ UNCHANGED <<blobStore, tmpFiles, shReq, shCount, metadata, shRegBefore>>
  /\ UNCHANGED <<storeVars, srvVars, envVars, cliVars, extVars>>

\* fsPromises.unlink(file.path) completes.
UnlinkDone(id) ==
  /\ id \in unlinks
  /\ unlinks' = unlinks \ {id}
  /\ tmpFiles' = tmpFiles \ {id}
  /\ UNCHANGED <<sharedBlobs, blobStore, shPc, shReq, shStatus, shRecord, shCount,
                 sharedFiles, metadata, shOutcome, shRegBefore>>
  /\ UNCHANGED <<storeVars, srvVars, envVars, cliVars, extVars>>

\* handleTextShare up to its await: 400 for a text that is empty once trimmed.
HandleTextShare(text, owner) ==
  /\ ShareReady /\ shCount < MaxShares /\ state = "Idle"
  /\ shCount' = shCount + 1
  /\ shReq' = [kind |-> "text", text |-> text, owner |-> owner]
  /\ shRegBefore' = sharedBlobs
  /\ shRecord' = <<>>
  /\ IF Trim(text) = <<>>
     THEN shPc' = "responded" /\ shStatus' = 400 /\ shOutcome' = "empty"
     ELSE shPc' = "addBytes" /\ shStatus' = 0 /\ shOutcome' = "none"
  /\ UNCHANGED <<sharedBlobs, blobStore, tmpFiles, unlinks, sharedFiles, metadata>>
  /\ UNCHANGED <<storeVars, srvVars, envVars, cliVars, extVars>>

\* shareTextContent: node.blobs.addBytesNamed(...) settles.
TextAddBytes(ok) ==
  /\ shPc = "addBytes"
  /\ IF ok
     THEN /\ blobStore' = blobStore \cup {shReq.text}
          /\ shPc' = "textShare"
          /\ UNCHANGED <<shStatus, shOutcome>>
     ELSE /\ shPc' = "responded" /\ shStatus' = 500 /\ shOutcome' = "addBytes"
          /\ UNCHANGED blobStore
  /\ UNCHANGED <<sharedBlobs, tmpFiles, unlinks, shReq, shRecord, shCount,
                 sharedFiles, metadata, shRegBefore>>
  /\ UNCHANGED <<storeVars, srvVars, envVars, cliVars, extVars>>

\* shareTextContent: node.blobs.share(...) settles; on success the record is
\* put in the registry and sent back.
TextTicket(ok) ==
  /\ shPc = "textShare"
  /\ LET hash == HashOf(shReq.text)
         record == TextRecord(shReq.text, shReq.owner, hash)
     IN IF ok
        THEN /\ sharedBlobs' = MapSet(sharedBlobs, hash, record)
             /\ shStatus' = 200 /\ shRecord' = <<record>> /\ shOutcome' = "ok"
        ELSE /\ shStatus' = 500 /\ shRecord' = <<>> /\ shOutcome' = "textShare"
             /\ UNCHANGED sharedBlobs
  /\ shPc' = "responded"
  /\ UNCHANGED <<blobStore, tmpFiles, unlinks, shReq, shCount, sharedFiles,
                 metadata, shRegBefore>>
  /\ UNCHANGED <<storeVars, srvVars, envVars, cliVars, extVars>>

\* { ...record, downloadUrlTicket: ticket.toString() }
WithDownloadUrl(record, ticket) ==
  [f \in DOMAIN record \cup {"downloadUrlTicket"} |->
     IF f = "downloadUrlTicket" THEN ticket ELSE record[f]]

\* inspectTicket over a registry and a store that holds the blob: the stored
\* record, or the fallback made of the blob's size, with downloadUrlTicket.
InspectIn(registry, store, hash) ==
  WithDownloadUrl(IF hash \in DOMAIN registry THEN registry[hash]
                  ELSE FallbackRecord(hash, Len(CHOOSE b \in store : HashOf(b) = hash)),
                  TicketOf(hash))
InspectTicket(hash) == InspectIn(sharedBlobs, blobStore, hash)

\* inspectTicket for a hash the registry holds no record of.
WithoutRecordThrows == "throws"
WithoutRecord == "fallback"

\* handleInspectTicket: GET /inspect, from the request to its response.
HandleInspectTicket ==
  /\ srvPc = "idle"
  /\ srvKind' = "inspect"
  /\ LET hash == HashOf(blob)
         stored == hash \in DOMAIN sharedBlobs
     IN \/ /\ stored \/ WithoutRecord = "fallback"
           /\ TicketResolves(IF stored THEN <<>> ELSE <<StoreCall("size", "ok")>>)
           /\ srvInfo' = <<InspectIn(sharedBlobs, blobStore \cup {blob}, hash)>>
           /\ srvStatus' = 200
           /\ srvPc' = "answered"
        \/ /\ srvInfo' = <<>>
           /\ srvStatus' = 400
           /\ srvPc' = "error"
           /\ \/ storeOps' = <<>> /\ UNCHANGED blobStore
              \/ \E failing \in TicketFailures : TicketFails(failing)
              \/ /\ ~stored
                 /\ TicketResolves(IF WithoutRecord = "fallback"
                                   THEN <<StoreCall("size", "throws")>> ELSE <<>>)
  /\ UNCHANGED <<srvReqRange, srvChunkSize, srvRange, srvOffset, srvYielded,
                 srvReads, storeVars>>

\* ----------------------------------------------------------------- preview
\* Byte counts of the preview are in bytes, not in units.  A JavaScript
\* number is held in halves, so that a fraction can be told from an integer;
\* nan is TRUE for NaN.
KB == 1024
MB == 1024 * 1024
NaN == [nan |-> TRUE, halves |-> 0]
Num(halves) == [nan |-> FALSE, halves |-> halves]
Whole(n) == Num(2 * n)

\* req.query.bytes: not sent, a text that is no number, or a numeral.
BytesAbsent == [kind |-> "absent", halves |-> 0]
BytesText == [kind |-> "text", halves |-> 0]
BytesNumeral(halves) == [kind |-> "numeral", halves |-> halves]
PreviewQueries ==
  {BytesAbsent, BytesText}
    \cup {BytesNumeral(h) : h \in {0, -10, 1, 2 * KB - 1, 2 * KB, 2 * KB + 1, 3001,
                                   2 * MB, 4 * MB - 1, 4 * MB, 4 * MB + 1, 4 * MB + 2,
                                   2000 * MB}}

\* Number(req.query.bytes)
ToNumber(q) == IF q.kind = "numeral" THEN Num(q.halves) ELSE NaN

\* Number(req.query.bytes) || 1024 * 1024: NaN and 0 give the default.
bytesParam(q) ==
  IF ~ToNumber(q).nan /\ ToNumber(q).halves # 0 THEN ToNumber(q) ELSE Whole(MB)

\* Math.max(1024, Math.min(bytesParam, 2 * 1024 * 1024))
byteLimit(q) == Num(Max(2 * KB, Min(bytesParam(q).halves, 2 * 2 * MB)))

\* BigInt(byteLength) throws a RangeError for a number that is no integer.
BigIntThrows(x) == x.nan \/ x.halves % 2 # 0
BigInt(x) == x.halves \div 2

\* getPreviewChunk: what it tells of the registry's record, which may be
\* missing (name and size are then undefined).
PreviewIn(registry, hash) ==
  IF hash \in DOMAIN registry
  THEN [mimeType |-> registry[hash].mimeType,
        isText |-> \/ registry[hash].mimeType[1] = "text"
                   \/ /\ registry[hash].name # <<>>
                      /\ registry[hash].name[Len(registry[hash].name)] = "md",
        name |-> registry[hash].name,
        size |-> registry[hash].size]
  ELSE [mimeType |-> <<"application", "octet-stream">>, isText |-> FALSE,
        name |-> <<>>, size |-> NoSize]

\* handlePreviewTicket with getPreviewChunk: 200 with the preview, or 400
\* when the ticket is missing or does not parse, when ensureBlobAvailable
\* throws, when BigInt(byteLimit) throws, or when the read throws.
HandlePreviewTicket ==
  /\ srvPc = "idle"
  /\ srvKind' = "preview"
  /\ \E q \in PreviewQueries :
       \/ /\ ~BigIntThrows(byteLimit(q))
          /\ TicketResolves(<<ReadCall(0, BigInt(byteLimit(q)), "ok")>>)
          /\ srvInfo' = <<PreviewIn(sharedBlobs, HashOf(blob))>>
          /\ srvStatus' = 200
          /\ srvPc' = "answered"
       \/ /\ srvInfo' = <<>>
          /\ srvStatus' = 400
          /\ srvPc' = "error"
          /\ \/ storeOps' = <<>> /\ UNCHANGED blobStore
             \/ \E failing \in TicketFailures : TicketFails(failing)
             \/ /\ BigIntThrows(byteLimit(q))
                /\ TicketResolves(<<>>)
             \/ /\ ~BigIntThrows(byteLimit(q))
                /\ TicketResolves(<<ReadCall(0, BigInt(byteLimit(q)), "throws")>>)
  /\ UNCHANGED <<srvReqRange, srvChunkSize, srvRange, srvOffset, srvYielded,
                 srvReads, storeVars>>

\* downloadTorrent(magnetURI) for the k-th shared file, up to the probe: the
\* ticket resolves to the stored bytes of its hash, and the tag is the one the
\* registry holds for that hash.
DownloadSharedTorrent(k) ==
  /\ state = "Idle" /\ ShareReady /\ unlinks = {}
  /\ k \in 1..Len(sharedFiles)
  /\ LET hash == sharedFiles[k].id
         info == InspectTicket(hash)
     IN /\ metadata' = <<info>>
        /\ blob' = CHOOSE b \in blobStore : HashOf(b) = hash
        /\ compression' = IF info.compression = "" THEN "none" ELSE info.compression
        /\ original' = sharedFiles[k].file.bytes
  /\ state' = "Probing"
  /\ UNCHANGED <<acceptRanges, compressedSize, chunkCount, chunks, nextIndex,
                 downloaded, wpc, wIndex, wAttempt, streamPc, received, assembled,
                 finalBlob, saved, toast, claimed, okAttempt, wOnlineFails,
                 doneOrder, failure>>
  /\ UNCHANGED <<sharedBlobs, blobStore, tmpFiles, unlinks, shPc, shReq, shStatus,
                 shRecord, shCount, sharedFiles, shOutcome, shRegBefore>>
  /\ UNCHANGED <<honorsRange, online>>
  /\ entry' = Placeholder(metadata')
  /\ UNCHANGED <<receivedBytes, originalSizeHeader, saves, writable>>
  /\ UNCHANGED <<srvVars, extVars>>

\* GET /preview for the ticket of the k-th shared file, without a bytes
\* parameter, once the share requests have settled: handlePreviewTicket with
\* getPreviewChunk against the registry the shares have written.  The node
\* holds the blob, and no store call throws.
PreviewSharedTicket(k) ==
  /\ state = "Idle" /\ ShareReady /\ unlinks = {}
  /\ srvPc = "idle"
  /\ k \in 1..Len(sharedFiles)
  /\ srvKind' = "preview"
  /\ storeOps' = EnsureFirst(ensureBlobAvailable(TRUE, "ok"),
                             <<ReadCall(0, BigInt(byteLimit(BytesAbsent)), "ok")>>)
  /\ srvInfo' = <<PreviewIn(sharedBlobs, sharedFiles[k].id)>>
  /\ srvStatus' = 200
  /\ srvPc' = "answered"
  /\ UNCHANGED <<srvReqRange, srvChunkSize, srvRange, srvOffset, srvYielded,
                 srvReads, storeVars>>
  /\ UNCHANGED <<envVars, cliVars, shareVars, planVars, wsVars, listVars>>

\* ------------------------------------------------------- WebSocket rooms
ConnSeq == <<1, 2>>         \* the WebSocket connections of one run
Conns == {ConnSeq[i] : i \in 1..Len(ConnSeq)}
UserIds == {"u1", "u2"}     \* message.userId
PeerIds == {"p1", "p2"}     \* message.message.recipient
RoomIds == {"r1"}           \* message.roomId
NoRoomId == ""              \* roomId undefined
NoRecipient == ""           \* message.message.recipient undefined

\* message.peerId of a JOIN: the peer id a client made for its user.
PeerIdOf(userId) == IF userId = "u1" THEN "p1" ELSE "p2"

\* extractSubnet(ip) of the connection's address: both connections come from
\* one network.
Subnet(c) == "netA"

EmptyMap == [k \in {} |-> 0]
MapDelete(map, key) == [k \in DOMAIN map \ {key} |-> map[k]]

\* The values of a Map, as a sequence.
RECURSIVE MapValues(_)
MapValues(map) ==
  IF DOMAIN map = {} THEN <<>>
  ELSE LET k == CHOOSE x \in DOMAIN map : TRUE
       IN <<map[k]>> \o MapValues(MapDelete(map, k))

\* A sequence without its repetitions and without 0 (null).
RECURSIVE Distinct(_)
Distinct(seq) ==
  IF seq = <<>> THEN <<>>
  ELSE LET front == Distinct(SubSeq(seq, 1, Len(seq) - 1))
           last == seq[Len(seq)]
       IN IF last = 0 \/ \E i \in 1..Len(front) : front[i] = last
          THEN front ELSE Append(front, last)
Pos(seq, x) == IF x = 0 THEN 0 ELSE CHOOSE i \in 1..Len(seq) : seq[i] = x

NoEvent == [type |-> "none", conn |-> 0, userId |-> "", recipient |-> ""]

WsIdle ==
  /\ peerHeap = <<>> /\ setHeap = <<>>
  /\ rooms = EmptyMap /\ explicitRooms = EmptyMap
  /\ readyState = [c \in Conns |-> "none"]
  /\ currentPeer = [c \in Conns |-> 0]
  /\ currentRoom = [c \in Conns |-> 0]
  /\ isExplicitRoom = [c \in Conns |-> FALSE]
  /\ wsLast = NoEvent /\ wsSent = <<>>

\* The objects after a step.  Reachable are the Sets the maps or a
\* connection's currentRoom refer to, and the LANPeers in those Sets or
\* referred to by a connection's currentPeer; they are numbered in the order
\* in which they are met from the maps and the connections (an object's
\* number is only its name).
SetOrder(subnetRooms, roomIdRooms, roomOf) ==
  Distinct(MapValues(subnetRooms) \o MapValues(roomIdRooms)
             \o [i \in 1..Len(ConnSeq) |-> roomOf[ConnSeq[i]]])
PeerOrder(sets, setOrder, peerOf) ==
  Distinct(Flatten([i \in 1..Len(setOrder) |-> sets[setOrder[i]]])
             \o [i \in 1..Len(ConnSeq) |-> peerOf[ConnSeq[i]]])
Settle(peers, sets, subnetRooms, roomIdRooms, peerOf, roomOf) ==
  \E setOrder \in {SetOrder(subnetRooms, roomIdRooms, roomOf)} :
    \E peerOrder \in {PeerOrder(sets, setOrder, peerOf)} :
      /\ setHeap' = [i \in 1..Len(setOrder) |->
                       [k \in 1..Len(sets[setOrder[i]]) |->
                          Pos(peerOrder, sets[setOrder[i]][k])]]
      /\ peerHeap' = [i \in 1..Len(peerOrder) |-> peers[peerOrder[i]]]
      /\ rooms' = [k \in DOMAIN subnetRooms |-> Pos(setOrder, subnetRooms[k])]
      /\ explicitRooms' = [k \in DOMAIN roomIdRooms |-> Pos(setOrder, roomIdRooms[k])]
      /\ currentPeer' = [c \in Conns |-> Pos(peerOrder, peerOf[c])]
      /\ currentRoom' = [c \in Conns |-> Pos(setOrder, roomOf[c])]

\* The first position of a Set whose peer has the id, 0 when none has.
FirstWithId(set, userId) ==
  LET hits == {i \in 1..Len(set) : peerHeap[set[i]].id = userId}
  IN IF hits = {} THEN 0 ELSE CHOOSE i \in hits : \A j \in hits : i <= j
FirstWithPeerId(set, peerId) ==
  LET hits == {i \in 1..Len(set) : peerHeap[set[i]].peerId = peerId}
  IN IF hits = {} THEN 0 ELSE CHOOSE i \in hits : \A j \in hits : i <= j

RemoveAt(set, i) ==
  IF i = 0 THEN set ELSE SubSeq(set, 1, i - 1) \o SubSeq(set, i + 1, Len(set))

\* Set.delete(peer)
SetDelete(set, peer) == SelectSeq(set, LAMBDA p : p # peer)

\* wss.on('connection'): the handler's variables are made.
Connect(c) ==
  /\ readyState[c] = "none"
  /\ readyState' = [readyState EXCEPT ![c] = "open"]
  /\ wsLast' = NoEvent /\ wsSent' = <<>>
  /\ UNCHANGED <<peerHeap, setHeap, rooms, explicitRooms, currentPeer, currentRoom,
                 isExplicitRoom>>

\* createRoom: a fresh room id with an empty Set.
CreateRoom(roomId) ==
  /\ roomId \notin DOMAIN explicitRooms
  /\ Settle(peerHeap, Append(setHeap, <<>>), rooms,
            MapSet(explicitRooms, roomId, Len(setHeap) + 1), currentPeer, currentRoom)
  /\ wsLast' = NoEvent /\ wsSent' = <<>>
  /\ UNCHANGED <<readyState, isExplicitRoom>>

\* handleMessage, case 'JOIN', and the handler's assignments after it.  The
\* first entry with the same id is taken out of the room that is joined and
\* the new LANPeer is added to it; PEERS is then broadcast to the room.
JoinKeepsSameId(set, userId) == set
JoinReplaces(set, userId) == RemoveAt(set, FirstWithId(set, userId))
Join(c, userId, roomId) ==
  /\ readyState[c] = "open"
  /\ Len(peerHeap) < MaxPeers
  /\ LET explicit == roomId # NoRoomId
         map == IF explicit THEN explicitRooms ELSE rooms
         key == IF explicit THEN roomId ELSE Subnet(c)
         made == key \notin DOMAIN map
         room == IF made THEN Len(setHeap) + 1 ELSE map[key]
         heap == IF made THEN Append(setHeap, <<>>) ELSE setHeap
         updatedPeer == Len(peerHeap) + 1
     IN /\ Settle(Append(peerHeap, [id |-> userId, peerId |-> PeerIdOf(userId),
                                    ws |-> c, roomId |-> roomId]),
                  [heap EXCEPT ![room] = Append(JoinReplaces(@, userId), updatedPeer)],
                  IF explicit THEN rooms ELSE MapSet(rooms, key, room),
                  IF explicit THEN MapSet(explicitRooms, key, room) ELSE explicitRooms,
                  [currentPeer EXCEPT ![c] = updatedPeer],
                  [currentRoom EXCEPT ![c] = room])
        /\ isExplicitRoom' = [isExplicitRoom EXCEPT ![c] = explicit]
  /\ wsLast' = NoEvent /\ wsSent' = <<>>
  /\ UNCHANGED readyState

\* The connections a relayed MESSAGE is sent to, in the Set's order: the
\* first peer with the recipient's peerId when its socket is open, or every
\* peer whose id is not message.userId and whose socket is open.
RelayTargets(set, userId, recipient) ==
  IF recipient # NoRecipient
  THEN IF /\ FirstWithPeerId(set, recipient) # 0
          /\ readyState[peerHeap[set[FirstWithPeerId(set, recipient)]].ws] = "open"
       THEN <<peerHeap[set[FirstWithPeerId(set, recipient)]].ws>>
       ELSE <<>>
  ELSE LET open == SelectSeq(set, LAMBDA p : /\ peerHeap[p].id # userId
                                            /\ readyState[peerHeap[p].ws] = "open")
       IN [i \in 1..Len(open) |-> peerHeap[open[i]].ws]

\* handleMessage, case 'MESSAGE', and the handler's assignments after it.
\* With no peer, or a subnet peer whose subnet has no room, nothing is
\* relayed and currentRoom becomes null.  When the peer's room is not in the
\* map any more, iterating undefined throws, the handler's catch logs it and
\* its variables stay as they were.
Message(c, userId, recipient) ==
  /\ readyState[c] = "open"
  /\ wsLast' = [type |-> "MESSAGE", conn |-> c, userId |-> userId,
                recipient |-> recipient]
  /\ IF \/ currentPeer[c] = 0
        \/ (peerHeap[currentPeer[c]].roomId = NoRoomId /\ Subnet(c) \notin DOMAIN rooms)
     THEN /\ Settle(peerHeap, setHeap, rooms, explicitRooms, currentPeer,
                    [currentRoom EXCEPT ![c] = 0])
          /\ isExplicitRoom' = [isExplicitRoom EXCEPT ![c] = FALSE]
          /\ wsSent' = <<>>
     ELSE LET roomId == peerHeap[currentPeer[c]].roomId
          IN IF roomId # NoRoomId /\ roomId \notin DOMAIN explicitRooms
             THEN /\ wsSent' = <<>>
                  /\ UNCHANGED <<peerHeap, setHeap, rooms, explicitRooms, currentPeer,
                                 currentRoom, isExplicitRoom>>
             ELSE LET room == IF roomId # NoRoomId THEN explicitRooms[roomId]
                              ELSE rooms[Subnet(c)]
                  IN /\ wsSent' = RelayTargets(setHeap[room], userId, recipient)
                     /\ Settle(peerHeap, setHeap, rooms, explicitRooms, currentPeer,
                               [currentRoom EXCEPT ![c] = room])
                     /\ isExplicitRoom' =
                          [isExplicitRoom EXCEPT ![c] = roomId # NoRoomId]
  /\ UNCHANGED readyState

\* A message of a type handleMessage has no case for: it returns
\* currentRoom null and isExplicitRoom false, which the handler assigns.
OtherMessage(c) ==
  /\ readyState[c] = "open"
  /\ Settle(peerHeap, setHeap, rooms, explicitRooms, currentPeer,
            [currentRoom EXCEPT ![c] = 0])
  /\ isExplicitRoom' = [isExplicitRoom EXCEPT ![c] = FALSE]
  /\ wsLast' = NoEvent /\ wsSent' = <<>>
  /\ UNCHANGED readyState

\* HEARTBEAT: currentPeer.lastSeen = Date.now().  The times themselves are
\* not kept: which peers have timed out when the cleanup runs is its input.
Heartbeat(c) ==
  /\ readyState[c] = "open"
  /\ wsLast' = NoEvent /\ wsSent' = <<>>
  /\ UNCHANGED <<peerHeap, setHeap, rooms, explicitRooms, readyState, currentPeer,
                 currentRoom, isExplicitRoom>>

\* ws.on('close') with handleConnectionClose: the peer is deleted from the
\* Set the handler holds; when that Set is empty the map's entry under the
\* peer's room id, or under the subnet, is deleted, else PEERS is broadcast.
\* Nothing refers to the handler's variables afterwards.
Close(c) ==
  /\ readyState[c] = "open"
  /\ readyState' = [readyState EXCEPT ![c] = "closed"]
  /\ isExplicitRoom' = [isExplicitRoom EXCEPT ![c] = FALSE]
  /\ IF currentPeer[c] # 0 /\ currentRoom[c] # 0
     THEN LET left == SetDelete(setHeap[currentRoom[c]], currentPeer[c])
              roomId == peerHeap[currentPeer[c]].roomId
              explicit == isExplicitRoom[c] /\ roomId # NoRoomId
          IN Settle(peerHeap, [setHeap EXCEPT ![currentRoom[c]] = left],
                    IF ~explicit /\ left = <<>> THEN MapDelete(rooms, Subnet(c))
                    ELSE rooms,
                    IF explicit /\ left = <<>> THEN MapDelete(explicitRooms, roomId)
                    ELSE explicitRooms,
                    [currentPeer EXCEPT ![c] = 0], [currentRoom EXCEPT ![c] = 0])
     ELSE Settle(peerHeap, setHeap, rooms, explicitRooms,
                 [currentPeer EXCEPT ![c] = 0], [currentRoom EXCEPT ![c] = 0])
  /\ wsLast' = NoEvent /\ wsSent' = <<>>

\* cleanupInactivePeers, run every 5 s for each connection: in every room
\* the peers not seen for more than PEER_TIMEOUT (30000 ms) are deleted, an
\* empty room is taken out of its map, and PEERS is broadcast to the others.
\* timedOut is the set of peers with now - lastSeen > PEER_TIMEOUT.
CleanedSet(set, timedOut) == SelectSeq(set, LAMBDA p : p \notin timedOut)
CleanedMap(map, timedOut) ==
  [k \in {j \in DOMAIN map : CleanedSet(setHeap[map[j]], timedOut) # <<>>} |-> map[k]]
cleanupInactivePeers(timedOut) ==
  /\ \E c \in Conns : readyState[c] = "open"
  /\ Settle(peerHeap,
            [r \in DOMAIN setHeap |->
               IF \/ \E k \in DOMAIN rooms : rooms[k] = r
                  \/ \E k \in DOMAIN explicitRooms : explicitRooms[k] = r
               THEN CleanedSet(setHeap[r], timedOut) ELSE setHeap[r]],
            CleanedMap(rooms, timedOut), CleanedMap(explicitRooms, timedOut),
            currentPeer, currentRoom)
  /\ wsLast' = NoEvent /\ wsSent' = <<>>
  /\ UNCHANGED <<readyState, isExplicitRoom>>

\* The sends of a relayed MESSAGE have left before the next event is handled.
Delivered ==
  /\ wsLast # NoEvent
  /\ wsLast' = NoEvent /\ wsSent' = <<>>
  /\ UNCHANGED <<peerHeap, setHeap, rooms, explicitRooms, readyState, currentPeer,
                 currentRoom, isExplicitRoom>>

wsOthers == <<storeVars, srvVars, envVars, cliVars, shareVars, reqVars, planVars,
             listVars>>

\* ------------------------------------------- downloads running side by side
\* downloadTorrent is a callback: a second call starts while the first one is
\* awaiting, and both update the page's one downloadingFiles list through
\* setDownloadingFiles.  The steps of a call between those updates are its
\* own; here a call is only its updates of the list.
Sessions == {1, 2}
ListHashes == {HashOf(<<1>>), HashOf(<<2>>)}    \* metadata.hash of the tickets
NoId == <<>>

\* nanoid(): a fresh id on every call.
nanoid(s) == <<"nanoid", <<s>>>>

\* metadata?.hash || nanoid()
DownloadId(s, hash, inspectOk) == IF inspectOk THEN hash ELSE nanoid(s)

\* The placeholder of call s; by is not a field of the code's entry, it
\* records which call put the entry on the list.
PlaceholderOf(s, downloadId) ==
  [id |-> downloadId, by |-> s, downloading |-> TRUE, connecting |-> TRUE,
   progress |-> <<0, 1>>, downloadedSize |-> NoSize]

\* setDownloadingFiles(prev => [placeholder, ...prev])
SessionStart(s, hash, inspectOk) ==
  /\ sessPc[s] = "off"
  /\ \E downloadId \in {DownloadId(s, hash, inspectOk)} :
       /\ sessId' = [sessId EXCEPT ![s] = downloadId]
       /\ downloadingFiles' = <<PlaceholderOf(s, downloadId)>> \o downloadingFiles
  /\ sessPc' = [sessPc EXCEPT ![s] = "running"]
  /\ UNCHANGED sessReceived
  /\ UNCHANGED <<storeVars, srvVars, envVars, cliVars, shareVars, reqVars, planVars,
                 wsVars>>

\* trackProgress(receivedBytes): prev.map over the entries with the call's id.
SessionProgress(s, n) ==
  /\ sessPc[s] = "running"
  /\ n > sessReceived[s]
  /\ sessReceived' = [sessReceived EXCEPT ![s] = n]
  /\ downloadingFiles' =
       [i \in DOMAIN downloadingFiles |->
          IF downloadingFiles[i].id = sessId[s]
          THEN [downloadingFiles[i] EXCEPT !.connecting = FALSE,
                                           !.progress = <<n * 100, MaxReceived>>,
                                           !.downloadedSize = n]
          ELSE downloadingFiles[i]]
  /\ UNCHANGED <<sessPc, sessId>>
  /\ UNCHANGED <<storeVars, srvVars, envVars, cliVars, shareVars, reqVars, planVars,
                 wsVars>>

\* downloadTorrent after the transfer returned: prev.map marks the entries
\* with the call's id finished.
SessionComplete(s) ==
  /\ sessPc[s] = "running"
  /\ sessPc' = [sessPc EXCEPT ![s] = "done"]
  /\ downloadingFiles' =
       [i \in DOMAIN downloadingFiles |->
          IF downloadingFiles[i].id = sessId[s]
          THEN [downloadingFiles[i] EXCEPT !.downloading = FALSE,
                                           !.connecting = FALSE,
                                           !.progress = <<100, 1>>,
                                           !.downloadedSize = MaxReceived]
          ELSE downloadingFiles[i]]
  /\ UNCHANGED <<sessId, sessReceived>>
  /\ UNCHANGED <<storeVars, srvVars, envVars, cliVars, shareVars, reqVars, planVars,
                 wsVars>>

\* downloadTorrent's catch: prev.filter(file => file.id !== downloadId)
SessionFail(s) ==
  /\ sessPc[s] = "running"
  /\ sessPc' = [sessPc EXCEPT ![s] = "failed"]
  /\ downloadingFiles' = SelectSeq(downloadingFiles, LAMBDA file : file.id # sessId[s])
  /\ UNCHANGED <<sessId, sessReceived>>
  /\ UNCHANGED <<storeVars, srvVars, envVars, cliVars, shareVars, reqVars, planVars,
                 wsVars>>

ListIdle ==
  /\ downloadingFiles = <<>>
  /\ sessPc = [s \in Sessions |-> "off"]
  /\ sessId = [s \in Sessions |-> NoId]
  /\ sessReceived = [s \in Sessions |-> 0]

\* ------------------------------------------------------- specifications
Encodings == {"none", "gzip", "mislabelled"}

\* No share request was received yet.
ShareIdle ==
  /\ tmpFiles = {} /\ unlinks = {} /\ shPc = "idle" /\ shReq = NoReq
  /\ shStatus = 0 /\ shRecord = <<>> /\ shCount = 0 /\ sharedFiles = <<>>
  /\ metadata = <<>> /\ shOutcome = "none" /\ shRegBefore = <<>>

\* The store holds a shared blob: the bytes as shared, or their gzip form, or
\* raw bytes whose record says gzip (the server records the tag it is sent).
StoreInit ==
  \E o \in Originals, enc \in Encodings :
    /\ original = o
    /\ blob = IF enc = "gzip" THEN gzipSync(o) ELSE o
    /\ compression = IF enc = "none" THEN "none" ELSE "gzip"
    /\ blobStore = {blob}
    /\ sharedBlobs =
         MapSet(<<>>, HashOf(blob),
                FileRecord([originalName |-> <<"file">>,
                            mimeType |-> <<"application", "octet-stream">>,
                            owner |-> "Anonymous",
                            originalSize |-> Len(o),
                            compression |-> compression],
                           Len(blob), HashOf(blob)))

CliIdle ==
  /\ state = "Idle" /\ acceptRanges = FALSE /\ compressedSize = 0
  /\ chunkCount = 0 /\ chunks = <<>> /\ nextIndex = 0 /\ downloaded = 0
  /\ wpc = [w \in Workers |-> "off"] /\ wIndex = [w \in Workers |-> 0]
  /\ wAttempt = [w \in Workers |-> 0] /\ streamPc = "off" /\ received = <<>>
  /\ assembled = <<>> /\ finalBlob = <<>> /\ saved = NoFile /\ toast = FALSE
  /\ claimed = <<>> /\ okAttempt = <<>> /\ wOnlineFails = [w \in Workers |-> 0]
  /\ doneOrder = <<>> /\ failure = "none" /\ receivedBytes = 0
  /\ entry = NoEntry /\ originalSizeHeader = 0 /\ saves = <<>> /\ writable = "none"
  /\ plan = <<>>

\* The ticket names a blob this server holds no record of (it was shared
\* through another server, or before a restart emptied the registry); the
\* node holds the blob already or can fetch it.
RemoteStoreInit ==
  \E o \in Originals, enc \in Encodings :
    /\ original = o
    /\ blob = IF enc = "gzip" THEN gzipSync(o) ELSE o
    /\ compression = IF enc = "none" THEN "none" ELSE "gzip"
    /\ blobStore \in {{}, {blob}}
    /\ sharedBlobs = <<>>

\* The server serving requests for one ticket.
ServerInit ==
  /\ StoreInit \/ RemoteStoreInit
  /\ SrvIdle /\ CliIdle /\ ShareIdle /\ WsIdle /\ ListIdle
  /\ honorsRange = FALSE /\ online = TRUE

ServerNext ==
  \/ \E c \in 1..MaxChunkArg, r \in RangeArgs :
       GetBlobStream(c, r) /\ UNCHANGED srvOthers
  \/ GetBlobStreamThrows /\ UNCHANGED srvOthers
  \/ \E h \in RangeHeaders :
       HandleDownloadTicket(h) /\ UNCHANGED srvOthers
  \/ \E h \in RangeHeaders :
       HandleDownloadTicketFails(h) /\ UNCHANGED srvOthers
  \/ IterNext /\ UNCHANGED srvOthers
  \/ IterReadThrows /\ UNCHANGED srvOthers
  \/ HandleInspectTicket /\ UNCHANGED srvOthers
  \/ HandlePreviewTicket /\ UNCHANGED srvOthers
  \/ SrvNextRequest /\ UNCHANGED srvOthers

ServerSpec == ServerInit /\ [][ServerNext]_vars

\* One download session against an endpoint serving the stored blob.
Init ==
  /\ StoreInit /\ SrvIdle /\ CliIdle /\ ShareIdle /\ WsIdle /\ ListIdle
  /\ honorsRange \in BOOLEAN /\ online = TRUE

Next ==
  \/ StartDownload
  \/ ProbeThenChunked
  \/ \E headOk \in BOOLEAN, ranges \in BOOLEAN : ProbeThenStreaming(headOk, ranges)
  \/ \E w \in Workers : WorkerFetchOk(w)
  \/ \E w \in Workers : WorkerFetchFail(w)
  \/ \E w \in Workers : WorkerSleepDone(w)
  \/ \E w \in Workers : WorkerClaim(w)
  \/ AssembleChunks
  \/ StreamResponseOk
  \/ StreamResponseFails
  \/ StreamToFile
  \/ StreamToFileCloseRejects
  \/ \E bodyAfter \in BodyAfterPipeFailure : StreamToFileFails(bodyAfter)
  \/ StreamRead
  \/ Decompress
  \/ SaveBlobToDisk
  \/ GoOffline
  \/ GoOnline

Spec == Init /\ [][Next]_vars

\* Files, owners, uploads and texts of the share requests.
ShareFiles ==
  {[name |-> <<"a", "txt">>, type |-> <<"text", "plain">>, bytes |-> b] :
     b \in {<<>>, Flat(MaxBlobLen), Ramp(MaxBlobLen)}}
  \cup {[name |-> <<"a", "txt", "gz">>, type |-> <<"application", "gzip">>,
         bytes |-> gzipSync(Flat(MaxBlobLen))]}
Owners == {"ann", "bob"}
RawUploads ==
  {[bytes |-> b, originalname |-> <<"raw", "bin">>,
    mimetype |-> <<"application", "octet-stream">>, owner |-> "",
    originalName |-> <<>>, originalSize |-> s, compression |-> c] :
     b \in {Ramp(MaxBlobLen)}, s \in {NoSize, MaxBlobLen + 1}, c \in {"", "gzip"}}
Texts == {<<>>, <<Space>>, <<Space, 1, Space>>, Flat(MaxBlobLen)}

\* Share requests served one after the other into an empty registry, then a
\* download of one of the files createTorrent listed, from the same server
\* (which advertises no byte ranges) once the upload cache has settled, and
\* without transfer faults.
ShareInit ==
  /\ blob = <<>> /\ compression = "none" /\ original = <<>>
  /\ sharedBlobs = <<>> /\ blobStore = {}
  /\ SrvIdle /\ CliIdle /\ ShareIdle /\ WsIdle /\ ListIdle
  /\ honorsRange = FALSE /\ online = TRUE

ShareNext ==
  \/ \E f \in ShareFiles, o \in Owners, g \in BOOLEAN : CreateTorrent(f, o, g)
  \/ \E u \in RawUploads : PostShareFile(u)
  \/ HandleFileShareNoFile
  \/ \E ok \in BOOLEAN : ShareStat(ok)
  \/ \E ok \in BOOLEAN : ShareImport(ok)
  \/ \E ok \in BOOLEAN : ShareTicket(ok)
  \/ \E id \in 1..MaxShares : UnlinkDone(id)
  \/ \E t \in Texts : HandleTextShare(t, "ann")
  \/ \E ok \in BOOLEAN : TextAddBytes(ok)
  \/ \E ok \in BOOLEAN : TextTicket(ok)
  \/ \E k \in 1..MaxShares : DownloadSharedTorrent(k)
  \/ \E headOk \in BOOLEAN : ProbeThenStreaming(headOk, FALSE)
  \/ StreamResponseOk
  \/ StreamToFile
  \/ StreamToFileCloseRejects
  \/ StreamRead
  \/ Decompress
  \/ SaveBlobToDisk

ShareSpec == ShareInit /\ [][ShareNext]_vars

\* ------------------------------------------------- a session that is left to run
\* The steps of a started session: every await of downloadTorrent settles
\* (a fetch resolves or rejects, a sleep ends, a read, the decompression and
\* the save settle), and the 'online' event arrives while the browser is
\* offline.  Starting a download and losing connectivity are not required
\* to happen.
SessionStep ==
  \/ ProbeThenChunked
  \/ \E headOk \in BOOLEAN, ranges \in BOOLEAN : ProbeThenStreaming(headOk, ranges)
  \/ \E w \in Workers : WorkerFetchOk(w)
  \/ \E w \in Workers : WorkerFetchFail(w)
  \/ \E w \in Workers : WorkerSleepDone(w)
  \/ \E w \in Workers : WorkerClaim(w)
  \/ AssembleChunks
  \/ StreamResponseOk
  \/ StreamResponseFails
  \/ StreamToFile
  \/ StreamToFileCloseRejects
  \/ \E bodyAfter \in BodyAfterPipeFailure : StreamToFileFails(bodyAfter)
  \/ StreamRead
  \/ Decompress
  \/ SaveBlobToDisk
LiveSpec == Init /\ [][Next]_vars /\ WF_vars(SessionStep) /\ WF_vars(GoOnline)

\* --------------------------------------------- the downloadingFiles list
\* Two downloadTorrent calls of one page, for equal or different tickets.
ListInit == ShareInit
ListNext ==
  \/ \E s \in Sessions, hash \in ListHashes, inspectOk \in BOOLEAN :
       SessionStart(s, hash, inspectOk)
  \/ \E s \in Sessions, n \in 1..MaxReceived : SessionProgress(s, n)
  \/ \E s \in Sessions : SessionComplete(s)
  \/ \E s \in Sessions : SessionFail(s)
ListSpec == ListInit /\ [][ListNext]_vars

\* ------------------------------------------------- previews of shared files
\* The files createTorrent is called with: those of ShareFiles and a
\* compressible markdown file.
PreviewFiles ==
  ShareFiles \cup {[name |-> <<"n", "md">>, type |-> <<"text", "markdown">>,
                    bytes |-> Flat(MaxBlobLen)]}

\* createTorrent calls served one after the other into an empty registry, and
\* /preview requests for the tickets of the files they listed.
PreviewInit == ShareInit
PreviewNext ==
  \/ \E f \in PreviewFiles, g \in BOOLEAN : CreateTorrent(f, "ann", g)
  \/ \E ok \in BOOLEAN : ShareStat(ok)
  \/ \E ok \in BOOLEAN : ShareImport(ok)
  \/ \E ok \in BOOLEAN : ShareTicket(ok)
  \/ \E id \in 1..MaxShares : UnlinkDone(id)
  \/ \E k \in 1..MaxShares : PreviewSharedTicket(k)
  \/ SrvNextRequest /\ UNCHANGED srvOthers
PreviewSpec == PreviewInit /\ [][PreviewNext]_vars

\* ------------------------------------------------------------ the chunk plan
\* The sizes a plan is computed for: small ones, the threshold itself and
\* the sizes just above it.
PlanSizes ==
  (1..(2 * MaxPlanSpan)) \cup (LARGE_BLOB_UNITS..(LARGE_BLOB_UNITS + MaxPlanSpan))

\* attemptChunkedDownload: chunkSize and chunkCount of a blob of the size.
PlanChunks(size) ==
  /\ state = "Idle" /\ chunkCount = 0
  /\ compressedSize' = size
  /\ acceptRanges' = TRUE
  /\ chunkCount' = ChunkCountOf(size)
  /\ UNCHANGED <<state, chunks, nextIndex, downloaded, wpc, wIndex, wAttempt,
                 streamPc, received, assembled, finalBlob, saved, toast, claimed,
                 okAttempt, wOnlineFails, doneOrder, failure, receivedBytes, entry,
                 originalSizeHeader, saves, writable>>
  /\ UNCHANGED <<storeVars, srvVars, envVars, shareVars, reqVars, planVars, wsVars,
                 listVars>>

\* fetchChunk(index): start and end of the next index.
PlanRange ==
  /\ state = "Idle" /\ Len(plan) < chunkCount
  /\ plan' = Append(plan, [start |-> ChunkStart(Len(plan)), end |-> ChunkEnd(Len(plan))])
  /\ UNCHANGED <<storeVars, srvVars, envVars, cliVars, shareVars, reqVars, wsVars,
                 listVars>>

PlanInit == ShareInit
PlanNext ==
  \/ \E size \in PlanSizes : PlanChunks(size)
  \/ PlanRange
PlanSpec == PlanInit /\ [][PlanNext]_vars

\* ------------------------------------------------ the WebSocket server alone
WsInit == ShareInit
WsEvent ==
  \/ \E c \in Conns : Connect(c)
  \/ \E roomId \in RoomIds : CreateRoom(roomId)
  \/ \E c \in Conns, userId \in UserIds, roomId \in RoomIds \cup {NoRoomId} :
       Join(c, userId, roomId)
  \/ \E c \in Conns, userId \in UserIds, recipient \in PeerIds \cup {NoRecipient} :
       Message(c, userId, recipient)
  \/ \E c \in Conns : OtherMessage(c)
  \/ \E c \in Conns : Heartbeat(c)
  \/ \E c \in Conns : Close(c)
  \/ \E timedOut \in SUBSET DOMAIN peerHeap : cleanupInactivePeers(timedOut)
WsNext ==
  \/ wsLast = NoEvent /\ WsEvent /\ UNCHANGED wsOthers
  \/ Delivered /\ UNCHANGED wsOthers
WsSpec == WsInit /\ [][WsNext]_vars

\* ================================================================ claims
ChunkedPath == chunkCount > 0
PastTransfer == state \in {"Decompressing", "Persisting", "Done"}

\* The body the endpoint answers for chunk index's ranged request.
BodyOf(index) ==
  EndpointResponse([start |-> ChunkStart(index), end |-> ChunkEnd(index)]).body

\* The transport bytes chunk index stands for, and a whole transfer of them.
OwnBytes(index) ==
  IF honorsRange
  THEN Slice(blob, index * chooseChunkSize(Len(blob)),
             Min(Len(blob), (index + 1) * chooseChunkSize(Len(blob))) - 1)
  ELSE blob
OwnTransport == Flatten([i \in 1..ChunkCountOf(Len(blob)) |-> OwnBytes(i - 1)])

OutOfOrder(order) == \E k \in 1..(Len(order) - 1) : order[k] > order[k + 1]

\* C1: once the chunked transfer has assembled its blob, the blob is the
\* concatenation of the buffers fetched for index 0, 1, .., chunkCount-1 in
\* that order, whatever order the fetches completed in.
C1_AssembledInIndexOrder ==
  (ChunkedPath /\ PastTransfer) =>
    assembled = Flatten([i \in 1..chunkCount |-> BodyOf(i - 1)])

\* C1 witness: a finished chunked download over an endpoint that serves
\* ranges, whose fetches completed in an order that is not the index order.
C1_Witness ==
  /\ state = "Done" /\ ChunkedPath /\ honorsRange
  /\ chunkCount >= 3 /\ OutOfOrder(doneOrder)
  /\ original = Ramp(MaxBlobLen) /\ compression = "none"

\* C2: every chunk index is claimed at most once, the claimed indices are
\* exactly those below the cursor, no two workers hold the same index, and
\* when all workers have returned every index was claimed exactly once.
C2_EachIndexClaimedOnce ==
  ChunkedPath =>
    /\ \A i \in DOMAIN claimed : claimed[i] = IF i < nextIndex THEN 1 ELSE 0
    /\ nextIndex <= chunkCount
    /\ \A v, w \in Workers :
         (v # w /\ wpc[v] \in {"fetch", "waitOnline", "sleep"}
                /\ wpc[w] \in {"fetch", "waitOnline", "sleep"}) => wIndex[v] # wIndex[w]
    /\ AllWorkersReturned => \A i \in 0..(chunkCount - 1) : claimed[i] = 1

\* C2 witness: all workers returned after sharing more chunks than workers.
C2_Witness ==
  /\ ChunkedPath /\ state = "ChunkedTransfer" /\ AllWorkersReturned
  /\ chunkCount > MAX_PARALLEL_CHUNKS /\ OutOfOrder(doneOrder)

\* C3: while the session is Decompressing after a chunked transfer, every
\* chunk index holds the buffer of a fetch that succeeded and no worker is
\* still claiming, fetching, waiting or failed.
C3_DecompressOnlyWhenComplete ==
  (ChunkedPath /\ state = "Decompressing") =>
    /\ \A i \in 0..(chunkCount - 1) :
         chunks[i] # NoBuf /\ okAttempt[i] >= 0 /\ claimed[i] >= 1
    /\ \A w \in Workers : wpc[w] \in {"off", "returned"}

\* C3 witness: Decompressing is entered after a transfer in which a worker
\* took more than one chunk and a chunk needed a retry.
C3_Witness ==
  /\ ChunkedPath /\ state = "Decompressing"
  /\ chunkCount > MAX_PARALLEL_CHUNKS
  /\ \E i \in 0..(chunkCount - 1) : okAttempt[i] > 0

\* C4: once a chunk has exhausted its retry budget the session is Failed and
\* stays so: nothing was or is assembled, decompressed or saved, the
\* streaming fallback is not started, and the failure toast was shown.
C4_ExhaustedChunkFailsDownload ==
  (\E w \in Workers : wpc[w] = "threw") =>
    /\ state = "Failed" /\ toast
    /\ assembled = <<>> /\ finalBlob = <<>> /\ saved = NoFile
    /\ streamPc = "off" /\ received = <<>>

\* C4 witness: a chunk ran out of attempts after other chunks had been
\* fetched, and the remaining worker has finished.
C4_Witness ==
  /\ \E w \in Workers : wpc[w] = "threw" /\ wAttempt[w] = MAX_CHUNK_RETRIES
  /\ \E w \in Workers : wpc[w] = "returned"
  /\ \E i \in 0..(chunkCount - 1) : chunks[i] # NoBuf

\* C5: a chunk fetched at its third attempt holds the bytes of its own range,
\* and every finished chunked download saved the bytes of a transfer of all
\* ranges in order, whether or not fetches failed on the way.
C5_RetriedChunkKeepsPlace ==
  ChunkedPath =>
    /\ \A i \in 0..(chunkCount - 1) :
         okAttempt[i] = MAX_CHUNK_RETRIES - 1 => chunks[i] = OwnBytes(i)
    /\ state = "Done" => saved = maybeDecompressBlob(OwnTransport, compression)

\* C5 witness: a finished download in which a chunk other than the first
\* failed twice and succeeded at the third attempt, while another succeeded
\* at once.
C5_Witness ==
  /\ ChunkedPath /\ state = "Done" /\ honorsRange /\ chunkCount >= 2
  /\ \E i \in 1..(chunkCount - 1) : okAttempt[i] = MAX_CHUNK_RETRIES - 1
  /\ \E i \in 0..(chunkCount - 1) : okAttempt[i] = 0
  /\ saved = original

\* C6: a chunk runs out of attempts only through failures that were not
\* offline stalls: a worker throws only after MAX_CHUNK_RETRIES failed
\* fetches seen while the client was online.
C6_OfflineStallKeepsBudget ==
  \A w \in Workers : wpc[w] = "threw" => wOnlineFails[w] >= MAX_CHUNK_RETRIES

\* C7: a finished download has saved what the streaming transfer of the same
\* ticket saves: the decompressed full body of the endpoint.
C7_ChunkedEqualsStreamed ==
  state = "Done" =>
    saved = maybeDecompressBlob(DownloadResponse(blob, NoRange).body, compression)

\* C8: a finished /download response to Range: bytes=s-e with
\* 0 <= s <= e < size has status 206 and the body bytes s..e of the blob; a
\* response to a request without Range has status 200 and the whole blob.
C8_RangeRequestAnswered ==
  (srvKind = "http" /\ srvPc = "done") =>
    IF srvReqRange = NoRange
    THEN srvStatus = 200 /\ Flatten(srvYielded) = blob
    ELSE (0 <= srvReqRange.start /\ srvReqRange.start <= srvReqRange.end
            /\ srvReqRange.end < Len(blob)) =>
           /\ srvStatus = 206
           /\ Flatten(srvYielded) = Slice(blob, srvReqRange.start, srvReqRange.end)

\* C9: the iterator's reads start at the range's start and each starts where
\* the one before ended; every buffer has between 1 and chunkSize bytes; the
\* buffers yielded so far are the bytes from start up to the offset; and when
\* the iterator has ended they are exactly bytes start..end of the blob.
C9_IteratorCoversRange ==
  srvPc \in {"iter", "done"} =>
    /\ \A k \in 1..Len(srvYielded) :
         Len(srvYielded[k]) >= 1 /\ Len(srvYielded[k]) <= srvChunkSize
    /\ Len(srvReads) = Len(srvYielded)
    /\ \A k \in 1..Len(srvReads) :
         srvReads[k] = IF k = 1 THEN srvRange.start
                       ELSE srvReads[k - 1] + Len(srvYielded[k - 1])
    /\ Flatten(srvYielded) = Slice(blob, srvRange.start, srvOffset - 1)
    /\ srvPc = "done" =>
         Flatten(srvYielded) = Slice(blob, srvRange.start, srvRange.end)

\* C9 witness: an iterator over an inner range ended after several reads, the
\* last one shorter than the chunk size.
C9_Witness ==
  /\ srvPc = "done" /\ srvKind = "api"
  /\ srvRange.start > 0 /\ srvRange.end < Len(blob) - 1
  /\ srvChunkSize >= 2 /\ Len(srvYielded) >= 2
  /\ Len(srvYielded[Len(srvYielded)]) < srvChunkSize

\* C10: getBlobStream called with a range that lies wholly outside the blob
\* ends in an error.
C10_OutsideRangeIsError ==
  (/\ srvKind = "api" /\ srvReqRange # NoRange
   /\ (srvReqRange.start >= Len(blob) \/ srvReqRange.end < 0)) =>
    srvPc = "error"

\* C11: for a requested range [s, e] with s <= e that overlaps a non-empty
\* blob, the range getBlobStream returns is the intersection of [s, e] with
\* [0, size-1] and satisfies 0 <= start <= end <= size-1; without a requested
\* range the returned range is [0, size-1].
C11_RangeIsIntersection ==
  (srvKind = "api" /\ srvPc \in {"iter", "done"}) =>
    LET size == Len(blob)
        s == srvReqRange.start
        e == srvReqRange.end
    IN IF srvReqRange = NoRange
       THEN srvRange = [start |-> 0, end |-> size - 1]
       ELSE (s <= e /\ size > 0 /\ s <= size - 1 /\ e >= 0) =>
              /\ srvRange = [start |-> Max(s, 0), end |-> Min(e, size - 1)]
              /\ 0 <= srvRange.start /\ srvRange.start <= srvRange.end
              /\ srvRange.end <= size - 1

\* C11 witness: a request reaching past both ends of a non-empty blob was
\* answered and its iterator ran to the end.
C11_Witness ==
  /\ srvKind = "api" /\ srvPc = "done" /\ Len(blob) > 1
  /\ srvReqRange # NoRange
  /\ srvReqRange.start < 0 /\ srvReqRange.end > Len(blob) - 1
  /\ Flatten(srvYielded) = blob

\* A request resolved its ticket: the node held the blob or fetched it.
EnsureCompleted(ops) ==
  \E k \in 1..Len(ops) :
    (ops[k].op = "has" /\ ops[k].result = "true")
      \/ (ops[k].op = "download" /\ ops[k].result = "ok")
NoCallThrew(ops) == \A k \in 1..Len(ops) : ops[k].result # "throws"
Finished == srvPc \in {"done", "answered", "error"}

\* C21: an inspect of a ticket that parses and whose blob the node holds or
\* fetched, with no store call failing, answers 200: with the record the
\* registry holds, field by field, plus downloadUrlTicket; or, when the
\* registry holds none, with name <hash>.bin, mimeType
\* application/octet-stream and the size the store tells.
C21_InspectFallsBack ==
  (srvKind = "inspect" /\ Finished /\ EnsureCompleted(storeOps) /\ NoCallThrew(storeOps)) =>
    /\ srvPc = "answered" /\ srvStatus = 200 /\ Len(srvInfo) = 1
    /\ LET hash == HashOf(blob)
           info == srvInfo[1]
       IN /\ info.downloadUrlTicket = TicketOf(hash)
          /\ IF hash \in DOMAIN sharedBlobs
             THEN /\ DOMAIN info = DOMAIN sharedBlobs[hash] \cup {"downloadUrlTicket"}
                  /\ \A f \in DOMAIN sharedBlobs[hash] : info[f] = sharedBlobs[hash][f]
             ELSE /\ info.hash = hash
                  /\ info.name = <<hash, "bin">>
                  /\ info.mimeType = <<"application", "octet-stream">>
                  /\ info.size = Len(blob)
                  /\ Len(storeOps) >= 1 /\ storeOps[Len(storeOps)].op = "size"

\* C21 witness: an inspect of a ticket of another server was answered after
\* the node had fetched the blob.
C21_Witness ==
  /\ srvKind = "inspect" /\ srvPc = "answered" /\ Len(blob) > 1
  /\ HashOf(blob) \notin DOMAIN sharedBlobs
  /\ \E k \in 1..Len(storeOps) : storeOps[k].op = "download"
  /\ srvInfo[1].size = Len(blob)

\* C12: once the registry holds a record for a hash, no step (a share of the
\* same bytes under another name, owner, original size or tag, an inspect, a
\* download) changes or removes that record.
C12_RecordNeverMutated ==
  [][\A h \in DOMAIN sharedBlobs :
       h \in DOMAIN sharedBlobs' /\ sharedBlobs'[h] = sharedBlobs[h]]_vars

\* C13: every record tagged gzip has compressedSize < 0.9 * size, and every
\* record tagged none has compressedSize = size.
C13_TagMatchesSizes ==
  \A h \in DOMAIN sharedBlobs :
    LET r == sharedBlobs[h]
    IN /\ r.compression = "gzip" => compressionWorthwhile(r.size, r.compressedSize)
       /\ r.compression = "none" => r.compressedSize = r.size

\* C14: a finished download of a file createTorrent shared has saved the
\* file's original bytes, and the inspect response told the original length
\* and the compression tag createTorrent chose.
C14_ShareDownloadRoundTrip ==
  state = "Done" =>
    /\ saved = original
    /\ metadata[1].size = Len(original)
    /\ \A k \in 1..Len(sharedFiles) :
         (sharedFiles[k].id = metadata[1].hash /\ sharedFiles[k].file.bytes = original)
           => metadata[1].compression = sharedFiles[k].compression

C17_FailedSharePublishesNothing ==
  (shPc = "responded" /\ shOutcome # "ok") =>
    /\ sharedBlobs = shRegBefore
    /\ shStatus \in {400, 500}
    /\ shRecord = <<>>

\* C17 witness: the ticket issue threw after the bytes had been ingested, in
\* front of a registry that holds another record.
C17_Witness ==
  /\ shPc = "responded" /\ shOutcome = "share"
  /\ shReq.upload.bytes \in blobStore
  /\ HashOf(shReq.upload.bytes) \notin DOMAIN sharedBlobs
  /\ sharedBlobs # <<>>

\* C15: a failed maybeDecompressBlob ends the session Failed with the toast
\* shown and nothing saved; and for stored bytes that are tagged gzip and
\* cannot be decompressed, no path (chunked, buffered stream, stream to file)
\* ever saves a file or reaches Persisting or Done.
C15_DecompressFailureIsTerminal ==
  /\ failure = "decompress" =>
       state = "Failed" /\ toast /\ saved = NoFile /\ finalBlob = <<>>
  /\ (compression = "gzip" /\ ~IsGzip(blob)) =>
       saved = NoFile /\ state \notin {"Persisting", "Done"}

\* C15 witness: the buffered streaming path read the whole body of a blob
\* tagged gzip, and its decompression failed.
C15_Witness ==
  /\ state = "Failed" /\ failure = "decompress" /\ ~ChunkedPath
  /\ compression = "gzip" /\ Len(blob) > 1 /\ Flatten(received) = blob

\* C18 as claimed: past the probe, the session has entered the chunked
\* transfer and not the streaming one if the probe advertised byte ranges,
\* and the streaming transfer and not the chunked one otherwise.
C18_RangesDecideTransfer ==
  state \notin {"Idle", "Probing"} =>
    IF acceptRanges THEN ChunkedPath /\ streamPc = "off"
    ELSE ~ChunkedPath /\ streamPc # "off"

\* C18 amended: past the probe, the session has entered the chunked transfer
\* and not the streaming one if the probe advertised byte ranges and told a
\* size other than 0, and the streaming transfer and not the chunked one
\* otherwise.
C18_RangesAndSizeDecideTransfer ==
  state \notin {"Idle", "Probing"} =>
    IF acceptRanges /\ compressedSize # 0
    THEN state # "StreamingTransfer" /\ ChunkedPath /\ streamPc = "off"
    ELSE state # "ChunkedTransfer" /\ ~ChunkedPath /\ streamPc # "off"

\* C18 witness: the probe advertised byte ranges for an empty blob and the
\* download finished over the streaming transfer.
C18_Witness ==
  /\ state = "Done" /\ acceptRanges /\ compressedSize = 0
  /\ streamPc = "end" /\ ~ChunkedPath /\ saved = original

\* The transitions of a session's state.
SessionEdges ==
  {<<"Idle", "Probing">>, <<"Probing", "ChunkedTransfer">>,
   <<"Probing", "StreamingTransfer">>, <<"ChunkedTransfer", "Decompressing">>,
   <<"StreamingTransfer", "Decompressing">>, <<"Decompressing", "Persisting">>,
   <<"Persisting", "Done">>}
  \cup {<<s, "Failed">> : s \in {"Probing", "ChunkedTransfer", "StreamingTransfer",
                                 "Decompressing", "Persisting"}}

C20_NoWorkAfterFailure ==
  [][state = "Failed" =>
       /\ chunks' = chunks /\ downloaded' = downloaded
       /\ nextIndex' = nextIndex /\ claimed' = claimed
       /\ \A w \in Workers : wpc'[w] = "fetch" => wpc[w] = "fetch"]_vars

\* C22: while a session is transferring, every step that receives transport
\* bytes (a chunk completion, a streamed read) adds to receivedBytes and
\* leaves the session's entry listed with downloadedSize = receivedBytes and
\* progress = receivedBytes / compressedSize (as a percentage).
C22_ProgressFollowsReceived ==
  [][(receivedBytes' # receivedBytes /\ state' \in {"ChunkedTransfer", "StreamingTransfer"})
       => /\ receivedBytes' > receivedBytes
          /\ entry' # NoEntry
          /\ entry'[1].downloadedSize = receivedBytes'
          /\ entry'[1].progress[1] * compressedSize'
               = receivedBytes' * 100 * entry'[1].progress[2]]_vars

\* C23: a preview whose ticket parsed and whose blob is local reads the
\* store exactly once, at offset 0 and with a byte limit in [1024, 2097152],
\* whatever the `bytes` parameter was.
C23_PreviewLimitInRange ==
  (srvKind = "preview" /\ Finished /\ EnsureCompleted(storeOps)) =>
    /\ Cardinality({k \in 1..Len(storeOps) : storeOps[k].op = "readAt"}) = 1
    /\ \A k \in 1..Len(storeOps) :
         storeOps[k].op = "readAt" =>
           /\ storeOps[k].offset = 0
           /\ storeOps[k].len \in 1024..2097152

\* C28: in an inspect, a download and a preview every size query and every
\* read of the store comes after the membership check of ensure-local and,
\* when the blob was absent, after its fetch; and a request whose
\* ensure-local failed has issued no size query and no read and ended with
\* status 400 (getBlobStream called directly throws instead).
C28_EnsureLocalFirst ==
  /\ \A k \in 1..Len(storeOps) :
       storeOps[k].op \in {"size", "readAt"} =>
         /\ storeOps[1].op = "has"
         /\ storeOps[1].result = "false" =>
              /\ k > 3
              /\ storeOps[2].op = "addNodeAddr" /\ storeOps[2].result = "ok"
              /\ storeOps[3].op = "download" /\ storeOps[3].result = "ok"
         /\ EnsureCompleted(SubSeq(storeOps, 1, k - 1))
  /\ (Finished /\ storeOps # <<>> /\ ~EnsureCompleted(storeOps)) =>
       /\ \A k \in 1..Len(storeOps) : storeOps[k].op \notin {"size", "readAt"}
       /\ srvPc = "error"
       /\ srvKind # "api" => srvStatus = 400

\* C28 witness: a preview read the blob after the node had fetched it from
\* the ticket's node.
C28_Witness ==
  /\ srvKind = "preview" /\ srvPc = "answered"
  /\ Len(storeOps) = 4
  /\ storeOps[1] = StoreCall("has", "false")
  /\ storeOps[3] = StoreCall("download", "ok")
  /\ storeOps[4].op = "readAt"

\* C29: a session that is Done has saved exactly once, a completed streaming
\* write is never followed by another save, and a session that is Failed
\* has saved nothing and left no file of the streaming write behind.
C29_OneSavePerDownload ==
  /\ state = "Done" => Len(saves) = 1
  /\ (\E k \in 1..Len(saves) : saves[k].via = "stream") => Len(saves) = 1
  /\ state = "Failed" => saves = <<>> /\ writable \in {"none", "aborted"}

\* C30: in a chunked transfer every buffer stored in chunks holds exactly
\* the bytes of the range requested for its index, and the assembled
\* transport blob has length compressedSize.
C30_ChunkIsRequestedRange ==
  ChunkedPath =>
    /\ \A i \in DOMAIN chunks :
         chunks[i] # NoBuf => chunks[i] = Slice(blob, ChunkStart(i), ChunkEnd(i))
    /\ PastTransfer => Len(assembled) = compressedSize

\* C26: in a chunked transfer exactly min(MAX_PARALLEL_CHUNKS, chunkCount)
\* workers were started, so that at most that many fetches are in flight,
\* each for another index; and a worker takes its next index only when its
\* fetch of the previous one, retries and waits included, has returned.
Started == {w \in Workers : wpc[w] # "off"}
InFlight == {w \in Workers : wpc[w] = "fetch"}
C26_Pool ==
  ChunkedPath =>
    /\ Cardinality(Started) = Min(MAX_PARALLEL_CHUNKS, chunkCount)
    /\ Cardinality(InFlight) <= MAX_PARALLEL_CHUNKS
    /\ Cardinality({wIndex[w] : w \in InFlight}) = Cardinality(InFlight)
C26_Sequential ==
  \A w \in Workers :
    (wIndex'[w] # wIndex[w] \/ (wpc[w] # "fetch" /\ wpc'[w] = "fetch")) =>
      \/ wpc[w] = "claim" /\ chunks[wIndex[w]] # NoBuf
      \/ wpc[w] = "sleep" /\ wIndex'[w] = wIndex[w]
      \/ state = "Probing"
C26_BoundedWorkerPool == [][C26_Pool /\ C26_Pool' /\ C26_Sequential]_vars

\* C26 witness: more chunks than workers, every worker fetching, one of them
\* on a chunk it claimed after its first.
C26_Witness ==
  /\ state = "ChunkedTransfer" /\ chunkCount > MAX_PARALLEL_CHUNKS
  /\ InFlight = Workers
  /\ \E w \in Workers : wIndex[w] >= MAX_PARALLEL_CHUNKS

\* C27: every entry of the registry is kept under its record's hash, the
\* store holds a blob with that hash, and the record's ticket is the ticket
\* of that hash.
C27_RegistryKeyIsStoreHash ==
  \A h \in DOMAIN sharedBlobs :
    /\ sharedBlobs[h].hash = h
    /\ \E b \in blobStore : HashOf(b) = h
    /\ sharedBlobs[h].ticket = TicketOf(h)

\* C27 witness: two share requests, a file and a text, left two records.
C27_Witness ==
  /\ shPc = "responded" /\ shCount = 2
  /\ Cardinality(DOMAIN sharedBlobs) = 2
  /\ \E h \in DOMAIN sharedBlobs : sharedBlobs[h].mimeType # <<"text", "plain">>
  /\ \E h \in DOMAIN sharedBlobs : sharedBlobs[h].name = <<"shared-text", "txt">>

\* C25: the ranges computed for index 0 .. chunkCount-1 partition
\* [0, compressedSize): chunkCount is ceil(compressedSize / chunkSize) with
\* chunkSize 512 KB, 1 MB above 200 MB; every range is non-empty and at most
\* chunkSize long, the first starts at 0, each next one starts right after
\* the one before, no two overlap, and the last ends at compressedSize - 1.
PlanChunkSize == IF compressedSize > 800 THEN 4 ELSE 2
C25_PlanPartitions ==
  (state = "Idle" /\ chunkCount > 0) =>
    /\ (chunkCount - 1) * PlanChunkSize < compressedSize
    /\ compressedSize <= chunkCount * PlanChunkSize
    /\ \A i \in 1..Len(plan) :
         /\ plan[i].start <= plan[i].end
         /\ plan[i].end - plan[i].start + 1 <= PlanChunkSize
         /\ plan[i].start = IF i = 1 THEN 0 ELSE plan[i - 1].end + 1
         /\ plan[i].end <= compressedSize - 1
         /\ i < chunkCount => plan[i].end - plan[i].start + 1 = PlanChunkSize
         /\ \A j \in 1..(i - 1) : plan[j].end < plan[i].start
    /\ Len(plan) = chunkCount => plan[chunkCount].end = compressedSize - 1

\* C25 witness: the whole plan of a blob above the threshold, whose last
\* range is shorter than the others.
C25_Witness ==
  /\ state = "Idle" /\ compressedSize > LARGE_BLOB_UNITS
  /\ Len(plan) = chunkCount /\ chunkCount > 200
  /\ plan[chunkCount].end - plan[chunkCount].start + 1 < LARGE_CHUNK_SIZE


\* C24: a MESSAGE sent by a joined peer is relayed only inside the sender's
\* own current room.  After the relay of a MESSAGE whose sender's LANPeer is
\* in the Set its room id (or subnet) names: the sender's connection is not
\* among the receivers; every receiver is a connection whose own LANPeer is
\* in that Set; a broadcast reaches every other such connection that is
\* open; a message with a recipient reaches only a connection whose LANPeer
\* has that peerId.
Receivers == {wsSent[i] : i \in 1..Len(wsSent)}
PeerOfRoom(d, room) ==
  /\ currentPeer[d] # 0
  /\ \E i \in 1..Len(setHeap[room]) : setHeap[room][i] = currentPeer[d]
C24_RelayStaysInRoom ==
  (/\ wsLast.type = "MESSAGE"
   /\ currentRoom[wsLast.conn] # 0
   /\ PeerOfRoom(wsLast.conn, currentRoom[wsLast.conn]))
  => LET room == currentRoom[wsLast.conn]
     IN /\ wsLast.conn \notin Receivers
        /\ \A d \in Receivers : PeerOfRoom(d, room)
        /\ wsLast.recipient = NoRecipient
             => Receivers = {d \in Conns \ {wsLast.conn} :
                               readyState[d] = "open" /\ PeerOfRoom(d, room)}
        /\ wsLast.recipient # NoRecipient
             => \A d \in Receivers : peerHeap[currentPeer[d]].peerId = wsLast.recipient

\* The Sets the two maps hold, and the entries of a connection in them.
MappedRooms ==
  {rooms[k] : k \in DOMAIN rooms} \cup {explicitRooms[k] : k \in DOMAIN explicitRooms}
EntriesOf(c) ==
  {e \in MappedRooms \X (1..(MaxPeers + 1)) :
     e[2] <= Len(setHeap[e[1]]) /\ peerHeap[setHeap[e[1]][e[2]]].ws = c}

\* C35: a WebSocket connection has at most one peer entry across all rooms,
\* subnet and explicit, and after the connection has closed no room holds an
\* entry with its socket.
C35_OneEntryPerConnection ==
  \A c \in Conns :
    /\ Cardinality(EntriesOf(c)) <= 1
    /\ readyState[c] = "closed" => EntriesOf(c) = {}

\* C36: in every room no two peer entries have the same user id.
C36_NoDuplicateUserId ==
  \A r \in 1..Len(setHeap) :
    \A i, j \in 1..Len(setHeap[r]) :
      peerHeap[setHeap[r][i]].id = peerHeap[setHeap[r][j]].id => i = j

\* C36 witness: connection 2 has joined the subnet room with the user id
\* connection 1 had joined it with; the room holds connection 2's entry with
\* that id next to another user's entry, and connection 1's LANPeer is in no
\* Set any more.
C36_Witness ==
  /\ wsLast = NoEvent
  /\ currentPeer[1] # 0 /\ currentPeer[2] # 0
  /\ peerHeap[currentPeer[1]].id = "u1" /\ peerHeap[currentPeer[2]].id = "u1"
  /\ peerHeap[currentPeer[1]].roomId = NoRoomId
  /\ \A r \in 1..Len(setHeap) : \A i \in 1..Len(setHeap[r]) : setHeap[r][i] # currentPeer[1]
  /\ Subnet(2) \in DOMAIN rooms
  /\ Len(setHeap[rooms[Subnet(2)]]) = 2
  /\ \E i \in 1..2 : setHeap[rooms[Subnet(2)]][i] = currentPeer[2]
  /\ \E i \in 1..2 : peerHeap[setHeap[rooms[Subnet(2)]][i]].id = "u2"

\* C34: /preview never returns gzip-compressed transport bytes as text.  An
\* answered preview of a shared file whose registry record has compression
\* gzip is not classified isText (handlePreviewTicket decodes the buffer
\* into textContent exactly when isText is true).
C34_NoCompressedTextPreview ==
  (srvKind = "preview" /\ srvPc = "answered")
    => \A k \in 1..Len(sharedFiles) :
         (/\ srvInfo[1].name = sharedFiles[k].file.name
          /\ sharedFiles[k].id \in DOMAIN sharedBlobs
          /\ srvInfo = <<PreviewIn(sharedBlobs, sharedFiles[k].id)>>
          /\ sharedBlobs[sharedFiles[k].id].compression = "gzip")
           => ~srvInfo[1].isText

\* C32: every /download request gets exactly one terminated response.  Once
\* handleDownloadTicket has returned, either the response was ended after
\* the headers and the body with status 200 and no error body was handed to
\* res.json, or it is the 400 error response with no body bytes written
\* before it; the response is never left open.
C32_OneTerminatedResponse ==
  (srvKind = "http" /\ srvPc \notin {"idle", "iter"})
    => \/ srvPc = "done" /\ srvStatus = 200 /\ srvInfo = <<>>
       \/ srvPc = "error" /\ srvStatus = 400 /\ srvYielded = <<>>

\* C33: every started download session eventually reaches Done or Failed,
\* when every await settles and connectivity returns while a worker waits
\* for it; on the way no chunk is fetched more than MAX_CHUNK_RETRIES times
\* and the cursor never moves back.
C33_SessionEnds ==
  /\ [](\A w \in Workers : wAttempt[w] <= MAX_CHUNK_RETRIES)
  /\ [][nextIndex' >= nextIndex]_vars
  /\ (state # "Idle") ~> (state \in {"Done", "Failed"})
\* A session that ended well although a chunk needed its last attempt.
C33_Witness ==
  /\ state = "Done"
  /\ \E i \in DOMAIN okAttempt : okAttempt[i] = MAX_CHUNK_RETRIES - 1
\* The entries call s put on the list, in list order.
EntriesBy(s) == SelectSeq(downloadingFiles, LAMBDA file : file.by = s)

\* C31: a step in which a downloadTorrent call neither started, nor reported
\* progress, nor ended leaves the entries that call put on downloadingFiles
\* as they were: no other call's progress update, completion or failure
\* cleanup changes or removes them, also when both calls download the same
\* ticket.
C31_SessionsDoNotShare ==
  [][\A s \in Sessions :
       (sessPc'[s] = sessPc[s] /\ sessReceived'[s] = sessReceived[s])
         => EntriesBy(s)' = EntriesBy(s)]_vars
====
